---------------------------- MODULE Spec2Model ----------------------------
(***************************************************************************)
(* A model of fluxprobe, the schema-driven protocol fuzzer of this         *)
(* repository: the schema model (schema.py), the message generator         *)
(* (generator.py), the mutator (mutator.py) and the fuzz runner            *)
(* (runner.py).                                                            *)
(*                                                                         *)
(* Python values are modelled as follows.                                  *)
(*   - bytes / bytearray: a sequence of integers in 0..255;                *)
(*   - str: a sequence of code points;                                     *)
(*   - a dynamically typed value (a default, a choice, a resolved field    *)
(*     value): a record [k, i, b] whose tag k is "none", "int", "bytes",   *)
(*     "str" or "other" (a float, a list, ...);                            *)
(*   - an Optional[int] attribute: NoInt stands for None;                  *)
(*   - an Optional[str] / Optional[list] attribute that the code only ever *)
(*     tests for truthiness: "" and <<>> stand for None as well;           *)
(*   - a dict: a function whose DOMAIN is the set of keys;                 *)
(*   - random.Random: the stream of its future draws, a sequence of        *)
(*     naturals that is followed by zeros; every rng method consumes one   *)
(*     draw and reduces it to its range.                                   *)
(*   - a function that may raise returns a record with an ok flag.         *)
(***************************************************************************)
EXTENDS Integers, Sequences, FiniteSets, TLC

VARIABLES
    pc,        \* position of the operation under study
    raw,       \* the "message" dictionary handed to protocol_from_dict: its list of raw fields
    parsed,    \* what _parse_message returned or raised
    fields,    \* schema.message.fields of the schema in use
    msg,       \* the GeneratedMessage (or the error generate_valid_message raised)
    buf,       \* Mutator.mutate's working bytearray
    opsLeft,   \* iterations of mutate's loop still to run
    applied,   \* the operators mutate's loop has applied so far, in order
    out,       \* what mutate returned, or the exception it raised
    width,     \* the result of the last _width_bytes call
    operations, \* the operations argument of the mutate call under way
    runs       \* the two FuzzRunner runs compared for reproducibility

vars == <<pc, raw, parsed, fields, msg, buf, opsLeft, applied, out, width, operations, runs>>

---------------------------------------------------------------------------
(* Bounds of the model *)

\* longest message.fields list enumerated
MaxFields == 3

---------------------------------------------------------------------------
(* Python values *)

\* None, for an Optional[int] attribute: an integer no schema in the model uses
NoInt == -1000

VNone == [k |-> "none", i |-> <<>>, b |-> <<>>]
\* an int value: n is a Python int as modelled below, a record [hi, lo]
VInt(n) == [k |-> "int", i |-> n, b |-> <<>>]
VBytes(s) == [k |-> "bytes", i |-> <<>>, b |-> s]
VStr(s) == [k |-> "str", i |-> <<>>, b |-> s]
VOther == [k |-> "other", i |-> <<>>, b |-> <<>>]

Min(x, y) == IF x < y THEN x ELSE y
Max(x, y) == IF x > y THEN x ELSE y

RECURSIVE Pow2(_)
Pow2(n) == IF n = 0 THEN 1 ELSE 2 * Pow2(n - 1)

\* dict[key] = value
Put(d, key, value) == [x \in (DOMAIN d) \cup {key} |-> IF x = key THEN value ELSE d[x]]

\* dict.get(key, default)
Get(d, key, default) == IF key \in DOMAIN d THEN d[key] ELSE default

EmptyDict == <<>>

---------------------------------------------------------------------------
(* Python's unbounded int.  The model checker's integers are 32 bits wide
   and the code computes with values up to and beyond 2^32 (0xFFFFFFFF,
   2 ** (8 * width)), so a Python int n is the record [hi, lo] with
   n = hi * 65536 + lo and lo in 0..65535 (hi < 0 for a negative n). *)

I(n) == [hi |-> n \div 65536, lo |-> n % 65536]

IAdd(x, y) == [hi |-> x.hi + y.hi + ((x.lo + y.lo) \div 65536), lo |-> (x.lo + y.lo) % 65536]

INeg(x) == IF x.lo = 0 THEN [hi |-> 0 - x.hi, lo |-> 0] ELSE [hi |-> 0 - x.hi - 1, lo |-> 65536 - x.lo]

ISub(x, y) == IAdd(x, INeg(y))

ILess(x, y) == x.hi < y.hi \/ (x.hi = y.hi /\ x.lo < y.lo)

ILeq(x, y) == x = y \/ ILess(x, y)

IMax(x, y) == IF ILess(x, y) THEN y ELSE x

\* 2 ** bits
IPow2(bits) == IF bits >= 16 THEN [hi |-> Pow2(bits - 16), lo |-> 0] ELSE [hi |-> 0, lo |-> Pow2(bits)]

\* (2 ** (8 * width)) - 1.  For a negative width Python computes the float
\* 2.0 ** (8 * width) - 1, which lies in (-1, 0); the code only takes its
\* floor half and compares ints to it, which -1 answers alike.
MaxOfWidth(w) == IF w < 0 THEN I(-1) ELSE ISub(IPow2(8 * w), I(1))

\* n // 2
IHalf(x) == [hi |-> x.hi \div 2, lo |-> (x.lo + 65536 * (x.hi % 2)) \div 2]

\* the byte of x that is p places from the right (x taken in two's complement)
ByteAt(x, p) ==
    IF p = 0 THEN x.lo % 256
    ELSE IF p = 1 THEN x.lo \div 256
    ELSE IF p <= 5 THEN (x.hi \div Pow2(8 * (p - 2))) % 256
    ELSE IF x.hi < 0 THEN 255 ELSE 0

\* the low w bytes of x, least significant first
LowBytesLittleEndian(x, w) == [j \in 1..w |-> ByteAt(x, j - 1)]

\* the w low bytes of x, big-endian: struct.pack of x & mask, or x.to_bytes(w, "big")
\* when x fits
LowBytes(x, w) == [j \in 1..w |-> ByteAt(x, w - j)]

\* whether 0 <= x < 2 ** (8 * w): int.to_bytes raises OverflowError otherwise
FitsWidth(x, w) == x.hi >= 0 /\ ILess(x, IPow2(8 * w))

\* int.to_bytes(w, "big"): the bytes, or the exception raised, which is a
\* ValueError for a negative length and an OverflowError for a value that
\* does not fit
ToBytes(x, w) ==
    IF w < 0
    THEN [ok |-> FALSE, err |-> "ValueError", b |-> <<>>]
    ELSE IF FitsWidth(x, w)
    THEN [ok |-> TRUE, err |-> "", b |-> LowBytes(x, w)]
    ELSE [ok |-> FALSE, err |-> "OverflowError", b |-> <<>>]

\* int.from_bytes(bs, "big")
RECURSIVE FromBytes(_)
FromBytes(bs) ==
    IF bs = <<>>
    THEN I(0)
    ELSE LET r == FromBytes(SubSeq(bs, 1, Len(bs) - 1))
             l == r.lo * 256 + bs[Len(bs)]
         IN  [hi |-> r.hi * 256 + (l \div 65536), lo |-> l % 65536]

---------------------------------------------------------------------------
(* schema.py *)

\* str(raw["type"]).lower()
Lower(t) ==
    CASE t = "U8" -> "u8"
      [] t = "U16" -> "u16"
      [] t = "ENUM" -> "enum"
      [] t = "BYTES" -> "bytes"
      [] t = "TCP" -> "tcp"
      [] t = "UDP" -> "udp"
      [] t = "IP" -> "ip"
      [] t = "SSH" -> "ssh"
      [] t = "Echo" -> "echo"
      [] OTHER -> t

\* _parse_field: a FieldSpec from a raw field dictionary
ParseField(r) ==
    [ name        |-> r["name"],
      type        |-> Lower(r["type"]),
      length      |-> Get(r, "length", NoInt),
      length_of   |-> Get(r, "length_of", ""),
      min_value   |-> Get(r, "min_value", VNone),
      max_value   |-> Get(r, "max_value", VNone),
      min_length  |-> Get(r, "min_length", NoInt),
      max_length  |-> Get(r, "max_length", NoInt),
      choices     |-> Get(r, "choices", <<>>),
      default     |-> Get(r, "default", VNone),
      encoding    |-> Get(r, "encoding", "ascii"),
      fuzz_values |-> Get(r, "fuzz_values", <<>>) ]

\* the decimal digits of a str, as int() reads them: the number, or ok = FALSE
\* when a character is not a digit or there is none
RECURSIVE ParseDigits(_, _)
ParseDigits(cs, acc) ==
    IF cs = <<>>
    THEN [ok |-> TRUE, n |-> acc]
    ELSE IF Head(cs) \in 48..57
    THEN ParseDigits(Tail(cs), 10 * acc + (Head(cs) - 48))
    ELSE [ok |-> FALSE, n |-> 0]

\* str.strip(), of spaces
RECURSIVE Strip(_)
Strip(cs) ==
    IF cs # <<>> /\ Head(cs) = 32 THEN Strip(Tail(cs))
    ELSE IF cs # <<>> /\ cs[Len(cs)] = 32 THEN Strip(SubSeq(cs, 1, Len(cs) - 1))
    ELSE cs

\* int(v) for an int or a str v: the int itself; for a str, surrounding
\* whitespace stripped, an optional sign, then digits, anything else being a
\* ValueError
IntOf(v) ==
    IF v.k = "int"
    THEN [ok |-> TRUE, n |-> v.i]
    ELSE LET cs == Strip(v.b)
             signed == cs # <<>> /\ Head(cs) \in {43, 45}
             digits == IF signed THEN Tail(cs) ELSE cs
             d == ParseDigits(digits, 0)
         IN  IF digits = <<>> \/ ~d.ok
             THEN [ok |-> FALSE, n |-> I(0)]
             ELSE [ok |-> TRUE, n |-> IF signed /\ Head(cs) = 45 THEN INeg(I(d.n)) ELSE I(d.n)]

\* a mutant of _parse_transport: the port 0 is let through
PortInRangeFromZero(port) == ILeq(I(0), port) /\ ILeq(port, I(65535))

\* 0 < port <= 65535
PortInRange(port) == ILess(I(0), port) /\ ILeq(port, I(65535))

\* _parse_transport: the TransportSpec, or the ValueError raised; the timeout
\* is in tenths of a second
ParseTransport(r) ==
    LET given == Get(r, "port", VNone)
        port == IntOf(given)
    IN  IF given.k # "none" /\ ~port.ok
        THEN [ok |-> FALSE, why |-> "invalid literal", type |-> "", host |-> "", port |-> I(0), timeout |-> 0]
        ELSE IF given.k # "none" /\ ~PortInRange(port.n)
        THEN [ok |-> FALSE, why |-> "invalid port", type |-> "", host |-> "", port |-> I(0), timeout |-> 0]
        ELSE [ok |-> TRUE,
              why |-> "",
              type |-> Lower(Get(r, "type", "tcp")),
              host |-> Get(r, "host", "127.0.0.1"),
              port |-> IF given.k = "none" THEN I(0) ELSE port.n,
              timeout |-> 10 * Get(r, "timeout", 1)]

\* next((f for f in fields if f.name == field_name), None): the index of the
\* first field of that name, 0 for None
FirstNamed(fs, name) ==
    IF \E i \in 1..Len(fs) : fs[i].name = name
    THEN CHOOSE i \in 1..Len(fs) : fs[i].name = name /\ \A j \in 1..(i - 1) : fs[j].name # name
    ELSE 0

\* a mutant of _has_cycle: a field seen before counts as a cycle, whether or
\* not it is on the active path
RECURSIVE HasCycleNoPath(_, _, _, _)
HasCycleNoPath(fs, name, visited, path) ==
    IF name \in visited
    THEN [cyc |-> TRUE, visited |-> visited]
    ELSE LET i == FirstNamed(fs, name)
         IN  IF i # 0 /\ fs[i].length_of # ""
             THEN HasCycleNoPath(fs, fs[i].length_of, visited \cup {name}, path \cup {name})
             ELSE [cyc |-> FALSE, visited |-> visited \cup {name}]

\* _parse_message._has_cycle: depth-first search with the set of fields on
\* the active path; returns the verdict and the visited set it leaves behind
\* (path is restored on a False return and abandoned on a True one)
RECURSIVE HasCycle(_, _, _, _)
HasCycle(fs, name, visited, path) ==
    IF name \in path
    THEN [cyc |-> TRUE, visited |-> visited]
    ELSE IF name \in visited
    THEN [cyc |-> FALSE, visited |-> visited]
    ELSE LET i == FirstNamed(fs, name)
         IN  IF i # 0 /\ fs[i].length_of # ""
             THEN HasCycle(fs, fs[i].length_of, visited \cup {name}, path \cup {name})
             ELSE [cyc |-> FALSE, visited |-> visited \cup {name}]

\* the loop "for field in fields: if field.length_of and field.name not in
\* visited: if _has_cycle(...): raise": the index of the field the error
\* names, 0 when the loop ends without raising
RECURSIVE CycleLoop(_, _, _)
CycleLoop(fs, i, visited) ==
    IF i > Len(fs)
    THEN 0
    ELSE IF fs[i].length_of # "" /\ fs[i].name \notin visited
    THEN LET r == HasCycle(fs, fs[i].name, visited, {})
         IN  IF r.cyc THEN i ELSE CycleLoop(fs, i + 1, r.visited)
    ELSE CycleLoop(fs, i + 1, visited)

\* a mutant of _parse_message: the length_of references are not validated
FirstDanglingUnchecked(fs) == 0

\* the first field whose length_of names no field, 0 if there is none
FirstDangling(fs) ==
    LET names == {fs[i].name : i \in 1..Len(fs)}
        bad == {i \in 1..Len(fs) : fs[i].length_of # "" /\ fs[i].length_of \notin names}
    IN  IF bad = {} THEN 0 ELSE CHOOSE i \in bad : \A j \in bad : i <= j

\* _parse_message
ParseMessage(rawFields) ==
    IF rawFields = <<>>
    THEN [ok |-> FALSE, why |-> "fields required", field |-> "", fields |-> <<>>]
    ELSE LET fs == [i \in 1..Len(rawFields) |-> ParseField(rawFields[i])]
             d  == FirstDangling(fs)
             c  == CycleLoop(fs, 1, {})
         IN  IF d # 0
             THEN [ok |-> FALSE, why |-> "no such field", field |-> fs[d].name, fields |-> <<>>]
             ELSE IF c # 0
             THEN [ok |-> FALSE, why |-> "circular dependency", field |-> fs[c].name, fields |-> <<>>]
             ELSE [ok |-> TRUE, why |-> "", field |-> "", fields |-> fs]

NotParsed == [ok |-> FALSE, why |-> "not parsed", field |-> "", fields |-> <<>>]

---------------------------------------------------------------------------
(* random.Random: the stream of draws still to come *)

Draw(rng) == IF rng = <<>> THEN 0 ELSE Head(rng)

Advance(rng) == IF rng = <<>> THEN <<>> ELSE Tail(rng)

\* rng.choice(seq), for a non-empty seq: the index chosen
ChoiceIndex(n, d) == 1 + (d % n)

\* rng.randrange(n), for n > 0
RandRange(n, d) == d % n

\* rng.randint(lo, hi) for lo <= hi, on the checker's integers: even draws
\* count up from lo, odd draws count down from hi
RandIntN(lo, hi, d) ==
    IF d % 2 = 0
    THEN lo + ((d \div 2) % (hi - lo + 1))
    ELSE hi - ((d \div 2) % (hi - lo + 1))

\* rng.randint(lo, hi) for lo <= hi, on Python ints
RandInt(lo, hi, d) ==
    LET span == ISub(hi, lo)
    IN  IF span.hi = 0
        THEN IAdd(lo, I(RandIntN(0, span.lo, d)))
        ELSE IF d % 2 = 0 THEN IAdd(lo, I(d \div 2)) ELSE ISub(hi, I(d \div 2))

\* rng.random() < 0.3, rng.random() being (d mod 10) / 10
RandomBelow3Tenths(d) == (d % 10) < 3

\* rng.randbytes(n), for n >= 0 (it raises ValueError for a negative n)
RandBytes(n, d) == [j \in 1..n |-> (d + j - 1) % 256]

---------------------------------------------------------------------------
(* generator.py *)

\* "field.length or k"
LengthOr(f, k) == IF f.length = NoInt \/ f.length = 0 THEN k ELSE f.length

\* _int_bounds
IntBounds(f) ==
    LET default_max ==
            IF f.type = "u8" \/ (f.type = "enum" /\ LengthOr(f, 1) = 1)
            THEN MaxOfWidth(1)
            ELSE IF f.type = "u16" \/ (f.type = "enum" /\ LengthOr(f, 2) = 2)
            THEN MaxOfWidth(2)
            ELSE MaxOfWidth(4)
    IN  [ min |-> IF f.min_value.k = "none" THEN I(0) ELSE f.min_value.i,
          max |-> IF f.max_value.k = "none" THEN default_max ELSE f.max_value.i ]

\* ''.join(chr(rng.randint(32, 126)) for _ in range(size))
RECURSIVE RandChars(_, _)
RandChars(size, rng) ==
    IF size <= 0
    THEN [s |-> <<>>, rng |-> rng]
    ELSE LET rest == RandChars(size - 1, Advance(rng))
         IN  [s |-> <<RandIntN(32, 126, Draw(rng))>> \o rest.s, rng |-> rest.rng]

GenRaise(rng) == [ok |-> FALSE, v |-> VNone, rng |-> rng]

\* _generate_field_value
GenerateFieldValue(f, rng) ==
    IF f.choices # <<>>
    THEN [ok |-> TRUE, v |-> f.choices[ChoiceIndex(Len(f.choices), Draw(rng))], rng |-> Advance(rng)]
    ELSE IF f.type \in {"u8", "u16", "u32", "enum"}
    THEN LET b == IntBounds(f)
         IN  IF ILess(b.max, b.min)
             THEN GenRaise(rng)    \* randint: empty range
             ELSE [ok |-> TRUE, v |-> VInt(RandInt(b.min, b.max, Draw(rng))), rng |-> Advance(rng)]
    ELSE LET min_len == IF f.length # NoInt THEN f.length
                        ELSE IF f.min_length = NoInt THEN 0 ELSE f.min_length
             max_len == IF f.length # NoInt THEN f.length
                        ELSE IF f.max_length = NoInt THEN 32 ELSE f.max_length
         IN  IF f.type \in {"bytes", "string"}
             THEN IF f.fuzz_values # <<>> /\ RandomBelow3Tenths(Draw(rng))
                  THEN LET r1 == Advance(rng)
                       IN  [ok |-> TRUE,
                            v |-> f.fuzz_values[ChoiceIndex(Len(f.fuzz_values), Draw(r1))],
                            rng |-> Advance(r1)]
                  ELSE LET r1 == IF f.fuzz_values # <<>> THEN Advance(rng) ELSE rng
                           size == RandIntN(min_len, max_len, Draw(r1))
                           r2 == Advance(r1)
                       IN  IF max_len < min_len
                           THEN GenRaise(r1)    \* randint: empty range
                           ELSE IF f.type = "string"
                           THEN LET cs == RandChars(size, r2)
                                IN  [ok |-> TRUE, v |-> VStr(cs.s), rng |-> cs.rng]
                           ELSE IF size < 0
                           THEN GenRaise(r2)    \* randbytes: negative argument
                           ELSE [ok |-> TRUE, v |-> VBytes(RandBytes(size, Draw(r2))), rng |-> Advance(r2)]
             ELSE GenRaise(rng)    \* Unsupported field type

\* one character of str.encode(encoding, errors="ignore")
EncodeChar(c, encoding) ==
    CASE encoding = "ascii" -> IF c < 128 THEN <<c>> ELSE <<>>
      [] encoding = "latin-1" -> IF c < 256 THEN <<c>> ELSE <<>>
      [] OTHER -> \* utf-8
            IF c < 128 THEN <<c>>
            ELSE IF c < 2048 THEN <<192 + (c \div 64), 128 + (c % 64)>>
            ELSE <<224 + (c \div 4096), 128 + ((c \div 64) % 64), 128 + (c % 64)>>

\* str.encode(encoding, errors="ignore")
RECURSIVE Encode(_, _)
Encode(s, encoding) ==
    IF s = <<>> THEN <<>> ELSE EncodeChar(Head(s), encoding) \o Encode(Tail(s), encoding)

\* _ensure_bytes
EnsureBytes(value, f) ==
    IF value.k = "bytes"
    THEN [ok |-> TRUE, b |-> value.b]
    ELSE IF value.k = "str"
    THEN LET encoding == IF f.encoding # "" THEN f.encoding
                         ELSE IF f.type = "bytes" THEN "latin-1" ELSE "ascii"
         IN  [ok |-> TRUE, b |-> Encode(value.b, encoding)]
    ELSE IF value.k = "int" /\ (f.type = "u8" \/ (f.type = "enum" /\ LengthOr(f, 1) = 1))
    THEN [ok |-> TRUE, b |-> LowBytes(value.i, 1)]
    ELSE IF value.k = "int" /\ (f.type = "u16" \/ (f.type = "enum" /\ LengthOr(f, 2) = 2))
    THEN [ok |-> TRUE, b |-> LowBytes(value.i, 2)]
    ELSE IF value.k = "int" /\ (f.type = "u32" \/ (f.type = "enum" /\ LengthOr(f, 4) = 4))
    THEN [ok |-> TRUE, b |-> LowBytes(value.i, 4)]
    ELSE [ok |-> FALSE, b |-> <<>>]    \* Cannot convert value

\* the first loop of generate_valid_message: the fields that are not derived
RECURSIVE ResolveIndependent(_, _, _, _)
ResolveIndependent(fs, i, values, rng) ==
    IF i > Len(fs)
    THEN [ok |-> TRUE, values |-> values, rng |-> rng]
    ELSE IF fs[i].length_of # ""
    THEN ResolveIndependent(fs, i + 1, values, rng)
    ELSE IF fs[i].default.k # "none"
    THEN ResolveIndependent(fs, i + 1, Put(values, fs[i].name, fs[i].default), rng)
    ELSE LET g == GenerateFieldValue(fs[i], rng)
         IN  IF g.ok
             THEN ResolveIndependent(fs, i + 1, Put(values, fs[i].name, g.v), g.rng)
             ELSE [ok |-> FALSE, values |-> values, rng |-> g.rng]

\* field_map = {f.name: f for f in fields}: the index of the last field of
\* each name
FieldMap(fs) ==
    [n \in {fs[i].name : i \in 1..Len(fs)} |->
        CHOOSE i \in 1..Len(fs) : fs[i].name = n /\ \A j \in (i + 1)..Len(fs) : fs[j].name # n]

\* the second loop of generate_valid_message: the derived length fields, in
\* declaration order
RECURSIVE ResolveDerived(_, _, _)
ResolveDerived(fs, i, values) ==
    IF i > Len(fs)
    THEN [ok |-> TRUE, values |-> values]
    ELSE IF fs[i].length_of = ""
    THEN ResolveDerived(fs, i + 1, values)
    ELSE IF fs[i].length_of \notin DOMAIN FieldMap(fs)
    THEN ResolveDerived(fs, i + 1, Put(values, fs[i].name, VInt(I(0))))
    ELSE LET target_field == fs[FieldMap(fs)[fs[i].length_of]]
             target_value == Get(values, fs[i].length_of, VBytes(<<>>))
             target_bytes == EnsureBytes(target_value, target_field)
         IN  IF target_bytes.ok
             THEN ResolveDerived(fs, i + 1, Put(values, fs[i].name, VInt(I(Len(target_bytes.b)))))
             ELSE [ok |-> FALSE, values |-> values]

\* the third loop of generate_valid_message: serialization, recording spans
RECURSIVE Serialize(_, _, _, _, _)
Serialize(fs, i, values, data, spans) ==
    IF i > Len(fs)
    THEN [ok |-> TRUE, data |-> data, field_spans |-> spans]
    ELSE LET field_bytes == EnsureBytes(values[fs[i].name], fs[i])
             start == Len(data)
             end == Len(data) + Len(field_bytes.b)
         IN  IF field_bytes.ok
             THEN Serialize(fs, i + 1, values, data \o field_bytes.b,
                            Put(spans, fs[i].name, <<start, end>>))
             ELSE [ok |-> FALSE, data |-> data, field_spans |-> spans]

MsgRaise(rng) ==
    [ok |-> FALSE, data |-> <<>>, values |-> EmptyDict, field_spans |-> EmptyDict, rng |-> rng]

\* generate_valid_message: the GeneratedMessage and the rng as it leaves it,
\* or ok = FALSE when it raises
GenerateValidMessage(fs, rng) ==
    LET p1 == ResolveIndependent(fs, 1, EmptyDict, rng)
        p2 == ResolveDerived(fs, 1, p1.values)
        p3 == Serialize(fs, 1, p2.values, <<>>, EmptyDict)
    IN  IF ~p1.ok THEN MsgRaise(p1.rng)
        ELSE IF ~p2.ok THEN MsgRaise(p1.rng)
        ELSE IF ~p3.ok THEN MsgRaise(p1.rng)
        ELSE [ok |-> TRUE, data |-> p3.data, values |-> p2.values,
              field_spans |-> p3.field_spans, rng |-> p1.rng]

NoMsg == [ok |-> FALSE, data |-> <<>>, values |-> EmptyDict, field_spans |-> EmptyDict, rng |-> <<>>]

---------------------------------------------------------------------------
(* mutator.py *)

IsIntChoice(c) == c.k = "int"

\* [c for c in field.choices if isinstance(c, int)]
IntChoices(f) == SelectSeq(f.choices, IsIntChoice)

\* max(int_choices), for a non-empty list
RECURSIVE MaxChoice(_)
MaxChoice(cs) ==
    IF Len(cs) = 1 THEN cs[1].i ELSE IMax(cs[1].i, MaxChoice(Tail(cs)))

\* a mutant of _width_bytes: the thresholds are exclusive
WidthBytesExclusive(f) ==
    IF f.type = "u8" THEN 1
    ELSE IF f.type = "u16" THEN 2
    ELSE IF f.type = "u32" THEN 4
    ELSE IF f.type = "enum"
    THEN IF f.length # NoInt /\ f.length # 0
         THEN f.length
         ELSE IF f.choices # <<>> /\ IntChoices(f) # <<>>
         THEN IF ILess(MaxChoice(IntChoices(f)), I(255)) THEN 1
              ELSE IF ILess(MaxChoice(IntChoices(f)), I(65535)) THEN 2
              ELSE 4
         ELSE 1
    ELSE 4

\* _width_bytes
WidthBytes(f) ==
    IF f.type = "u8" THEN 1
    ELSE IF f.type = "u16" THEN 2
    ELSE IF f.type = "u32" THEN 4
    ELSE IF f.type = "enum"
    THEN IF f.length # NoInt /\ f.length # 0
         THEN f.length
         ELSE IF f.choices # <<>> /\ IntChoices(f) # <<>>
         THEN IF ILeq(MaxChoice(IntChoices(f)), I(255)) THEN 1
              ELSE IF ILeq(MaxChoice(IntChoices(f)), I(65535)) THEN 2
              ELSE 4
         ELSE 1
    ELSE 4

\* Mutator.__init__: self.length_fields, as indices into the schema's fields
LengthFields(fs) == SelectSeq([i \in 1..Len(fs) |-> i], LAMBDA i : fs[i].length_of # "")

\* Mutator.__init__: self.enum_fields
EnumFields(fs) == SelectSeq([i \in 1..Len(fs) |-> i], LAMBDA i : fs[i].type = "enum")

\* b[start:end] of a bytearray: the bounds are clamped to its length
SliceGet(b, start, end) ==
    LET s == Min(start, Len(b))
        e == Max(s, Min(end, Len(b)))
    IN  SubSeq(b, s + 1, e)

\* b[start:end] = new
SliceSet(b, start, end, new) ==
    LET s == Min(start, Len(b))
        e == Max(s, Min(end, Len(b)))
    IN  SubSeq(b, 1, s) \o new \o SubSeq(b, e + 1, Len(b))

\* byte ^ (1 << k)
FlipBit(byte, k) ==
    IF (byte \div Pow2(k)) % 2 = 1 THEN byte - Pow2(k) ELSE byte + Pow2(k)

\* what an operator leaves behind: the buffer and the rng, or ok = FALSE when
\* it raises
Done(b, rng) == [ok |-> TRUE, buf |-> b, rng |-> rng]
Raised(b, rng) == [ok |-> FALSE, buf |-> b, rng |-> rng]

\* Mutator._bit_flip
BitFlip(fs, m, b, rng) ==
    IF b = <<>>
    THEN Done(b, rng)
    ELSE LET idx == RandRange(Len(b), Draw(rng))
             k == RandRange(8, Draw(Advance(rng)))
         IN  Done([b EXCEPT ![idx + 1] = FlipBit(b[idx + 1], k)], Advance(Advance(rng)))

\* Mutator._random_byte
RandomByte(fs, m, b, rng) ==
    IF b = <<>>
    THEN Done(b, rng)
    ELSE LET idx == RandRange(Len(b), Draw(rng))
         IN  Done([b EXCEPT ![idx + 1] = RandRange(256, Draw(Advance(rng)))], Advance(Advance(rng)))

\* Mutator._truncate
Truncate(fs, m, b, rng) ==
    IF Len(b) <= 1
    THEN Done(b, rng)
    ELSE LET new_len == 1 + RandRange(Len(b) - 1, Draw(rng))
         IN  Done(SubSeq(b, 1, new_len), Advance(rng))

\* Mutator._extend
Extend(fs, m, b, rng) ==
    LET extra_len == RandIntN(1, 8, Draw(rng))
    IN  Done(b \o RandBytes(extra_len, Draw(Advance(rng))), Advance(Advance(rng)))

\* the offset_choices list of _corrupt_length
OffsetChoices(current, max_value) ==
    <<I(-2), I(-1), I(1), I(2)>>
        \o (IF ILess(current, IHalf(max_value))
            THEN <<IAdd(IAdd(current, current), I(1))>>
            ELSE <<>>)

\* a mutant of _corrupt_length: the OverflowError of to_bytes is not caught
CorruptLengthUncaught(fs, m, b, rng) ==
    IF LengthFields(fs) = <<>> \/ DOMAIN m.field_spans = {}
    THEN Done(b, rng)
    ELSE LET field == fs[LengthFields(fs)[ChoiceIndex(Len(LengthFields(fs)), Draw(rng))]]
             r1 == Advance(rng)
         IN  IF field.name \notin DOMAIN m.field_spans
             THEN Done(b, r1)
             ELSE LET start == m.field_spans[field.name][1]
                      end == m.field_spans[field.name][2]
                      w == WidthBytes(field)
                      current == FromBytes(SliceGet(b, start, end))
                      max_value == MaxOfWidth(w)
                      offset_choices == OffsetChoices(current, max_value)
                      offset == offset_choices[ChoiceIndex(Len(offset_choices), Draw(r1))]
                      corrupt_value == IMax(I(0), IAdd(current, offset))
                      packed == ToBytes(corrupt_value, w)
                  IN  IF packed.ok
                      THEN Done(SliceSet(b, start, end, packed.b), Advance(r1))
                      ELSE Raised(b, Advance(r1))

\* Mutator._corrupt_length
CorruptLength(fs, m, b, rng) ==
    IF LengthFields(fs) = <<>> \/ DOMAIN m.field_spans = {}
    THEN Done(b, rng)
    ELSE LET field == fs[LengthFields(fs)[ChoiceIndex(Len(LengthFields(fs)), Draw(rng))]]
             r1 == Advance(rng)
         IN  IF field.name \notin DOMAIN m.field_spans
             THEN Done(b, r1)
             ELSE LET start == m.field_spans[field.name][1]
                      end == m.field_spans[field.name][2]
                      w == WidthBytes(field)
                      current == FromBytes(SliceGet(b, start, end))
                      max_value == MaxOfWidth(w)
                      offset_choices == OffsetChoices(current, max_value)
                      offset == offset_choices[ChoiceIndex(Len(offset_choices), Draw(r1))]
                      corrupt_value == IMax(I(0), IAdd(current, offset))
                      packed == ToBytes(corrupt_value, w)
                  IN  IF packed.ok
                      THEN Done(SliceSet(b, start, end, packed.b), Advance(r1))
                      ELSE IF packed.err = "OverflowError"
                      THEN Done(SliceSet(b, start, end, ToBytes(I(0), w).b), Advance(r1))
                      ELSE Raised(b, Advance(r1))    \* only OverflowError is caught

\* Mutator._invalid_enum
InvalidEnum(fs, m, b, rng) ==
    IF EnumFields(fs) = <<>> \/ DOMAIN m.field_spans = {}
    THEN Done(b, rng)
    ELSE LET field == fs[EnumFields(fs)[ChoiceIndex(Len(EnumFields(fs)), Draw(rng))]]
             r1 == Advance(rng)
         IN  IF field.name \notin DOMAIN m.field_spans
             THEN Done(b, r1)
             ELSE LET start == m.field_spans[field.name][1]
                      end == m.field_spans[field.name][2]
                      w == WidthBytes(field)
                      int_choices == IntChoices(field)
                  IN  IF int_choices = <<>>
                      THEN IF w < 0
                           THEN Raised(b, r1)    \* randbytes: negative argument
                           ELSE Done(SliceSet(b, start, end, RandBytes(w, Draw(r1))), Advance(r1))
                      ELSE LET invalid_value == IAdd(MaxChoice(int_choices), I(RandIntN(1, 10, Draw(r1))))
                               packed == ToBytes(invalid_value, w)
                           IN  IF packed.ok
                               THEN Done(SliceSet(b, start, end, packed.b), Advance(r1))
                               ELSE IF packed.err = "OverflowError"
                               THEN Done(SliceSet(b, start, end, ToBytes(MaxOfWidth(w), w).b), Advance(r1))
                               ELSE Raised(b, Advance(r1))    \* only OverflowError is caught

\* the list rng.choice draws from in mutate
Operators == <<"bit_flip", "random_byte", "truncate", "extend", "corrupt_length", "invalid_enum">>

\* choice(buf, msg, rng)
Apply(op, fs, m, b, rng) ==
    CASE op = "bit_flip" -> BitFlip(fs, m, b, rng)
      [] op = "random_byte" -> RandomByte(fs, m, b, rng)
      [] op = "truncate" -> Truncate(fs, m, b, rng)
      [] op = "extend" -> Extend(fs, m, b, rng)
      [] op = "corrupt_length" -> CorruptLength(fs, m, b, rng)
      [] OTHER -> InvalidEnum(fs, m, b, rng)

\* the operator one iteration of mutate's loop draws
ChosenOperator(rng) == Operators[ChoiceIndex(Len(Operators), Draw(rng))]

\* one iteration of mutate's loop
MutateOnce(fs, m, b, rng) == Apply(ChosenOperator(rng), fs, m, b, Advance(rng))

\* range(max(1, operations)): how often mutate's loop runs
LoopCount(n) == Max(1, n)

\* mutate's loop, n iterations of it; an operator that raises ends it
RECURSIVE MutateLoop(_, _, _, _, _)

\* the rest of the loop after an iteration that left r
MutateRest(fs, m, r, n) == IF r.ok THEN MutateLoop(fs, m, r.buf, r.rng, n - 1) ELSE r

MutateLoop(fs, m, b, rng, n) ==
    IF n = 0
    THEN Done(b, rng)
    ELSE MutateRest(fs, m, MutateOnce(fs, m, b, rng), n)

\* a mutant of mutate: buf is msg.data itself, not a copy of it
MsgAliased(m, b) == [m EXCEPT !.data = b]

\* msg as an iteration of mutate's loop leaves it, b being what the iteration
\* left in buf: buf is a bytearray of its own, built from msg.data before the
\* loop, and the operators only read msg (msg.field_spans.get), so that no
\* write reaches msg
MsgAfter(m, b) == m

\* Mutator.mutate
Mutate(fs, m, rng, n) == MutateLoop(fs, m, m.data, rng, LoopCount(n))

---------------------------------------------------------------------------
(* Values of the variables an operation does not use *)

NoOut == [ok |-> FALSE, data |-> <<>>]

NoField == ParseField([name |-> "", type |-> ""])

---------------------------------------------------------------------------
(* SpecSchema: protocol_from_dict on message dictionaries *)

FieldNames == {"a", "b", "c"}

\* the raw fields of SpecSchema: a name, a type and, possibly, a length_of
\* that names a field or "zz", which no field is called
RawSchemaFields ==
    {[name |-> n, type |-> "U8"] : n \in FieldNames}
        \cup {[name |-> n, type |-> "u16", length_of |-> t] : n \in FieldNames, t \in FieldNames \cup {"zz"}}

SeqsUpTo(S, n) == UNION {[1..k -> S] : k \in 0..n}

InitSchema ==
    /\ pc = "parse"
    /\ raw \in SeqsUpTo(RawSchemaFields, MaxFields)
    /\ parsed = NotParsed
    /\ fields = <<>>
    /\ msg = NoMsg
    /\ buf = <<>>
    /\ opsLeft = 0
    /\ applied = <<>>
    /\ out = NoOut
    /\ width = 0
    /\ operations = 0
    /\ runs = <<>>

\* protocol_from_dict(raw): message = _parse_message(raw["message"])
ProtocolFromDict ==
    /\ pc = "parse"
    /\ parsed' = ParseMessage(raw)
    /\ fields' = parsed'.fields
    /\ pc' = "parsed"
    /\ UNCHANGED <<raw, msg, buf, opsLeft, applied, out, width, runs, operations>>

NextSchema == ProtocolFromDict

SpecSchema == InitSchema /\ [][NextSchema]_vars

---------------------------------------------------------------------------
(* The length_of graph of a message, defined without the search: an edge
   from a field's name to the name its length_of gives *)

Edges(fs) == {<<fs[i].name, fs[i].length_of>> : i \in {j \in 1..Len(fs) : fs[j].length_of # ""}}

Successors(E, S) == {e[2] : e \in {x \in E : x[1] \in S}}

\* the names reached from S by 1..k edges
RECURSIVE ReachedWithin(_, _, _)
ReachedWithin(E, S, k) ==
    IF k = 0 THEN {} ELSE Successors(E, S) \cup ReachedWithin(E, Successors(E, S), k - 1)

OnCycle(fs, n) == n \in ReachedWithin(Edges(fs), {n}, Len(fs))

GraphHasCycle(fs) == \E i \in 1..Len(fs) : OnCycle(fs, fs[i].name)

DistinctNames(fs) == \A i, j \in 1..Len(fs) : fs[i].name = fs[j].name => i = j

AllTargetsExist(fs) ==
    \A i \in 1..Len(fs) : fs[i].length_of # "" => \E j \in 1..Len(fs) : fs[j].name = fs[i].length_of

ParsedInput == [i \in 1..Len(raw) |-> ParseField(raw[i])]

RaisedCycle == ~parsed.ok /\ parsed.why = "circular dependency"

C11_EmptyOrDanglingRejected ==
    pc = "parsed"
        => /\ parsed.ok => (raw # <<>> /\ AllTargetsExist(ParsedInput))
           /\ raw = <<>> => (~parsed.ok /\ parsed.why = "fields required" /\ fields = <<>>)
           /\ (raw # <<>> /\ ~AllTargetsExist(ParsedInput))
                => (~parsed.ok /\ parsed.why = "no such field" /\ fields = <<>>)

\* a message whose last field alone, of three, has a missing length_of target
\* has been rejected for it
C11_Witness ==
    /\ pc = "parsed"
    /\ Len(raw) = 3
    /\ DistinctNames(ParsedInput)
    /\ ParsedInput[1].length_of \in {ParsedInput[i].name : i \in 1..3}
    /\ ParsedInput[2].length_of = ""
    /\ ParsedInput[3].length_of = "zz"
    /\ ~parsed.ok
    /\ parsed.why = "no such field"
    /\ parsed.field = ParsedInput[3].name

\* C13, as the claim states it: the fields of every schema returned have
\* pairwise distinct names
C13_DistinctFieldNames == (pc = "parsed" /\ parsed.ok) => DistinctNames(fields)

\* C14, as the claim states it: the field the circular-dependency error names
\* is on a cycle of the length_of graph
C14_NamedFieldOnCycle == (pc = "parsed" /\ RaisedCycle) => OnCycle(ParsedInput, parsed.field)

---------------------------------------------------------------------------
(* SpecTransport: _parse_transport on transport dictionaries *)

\* the ports given as ints: both sides of both ends of the range, and beyond
PortInts == {-70000, -1, 0, 1, 2, 80, 65534, 65535, 65536, 70000, 131072}

\* the ports given as strings: "80", " 80 ", "+80", "0", "-5", "65535",
\* "65536", "", "abc", "8o"
PortStrings ==
    { <<56, 48>>, <<32, 56, 48, 32>>, <<43, 56, 48>>, <<48>>, <<45, 53>>,
      <<54, 53, 53, 51, 53>>, <<54, 53, 53, 51, 54>>, <<>>, <<97, 98, 99>>, <<56, 111>> }

\* the values of the "port" key, None (null) among them
PortValues == {VNone} \cup {VInt(I(n)) : n \in PortInts} \cup {VStr(cs) : cs \in PortStrings}

\* a dictionary with the keys of K, taken from full
Restrict(full, K) == [k \in K |-> full[k]]

\* the transport dictionaries: any subset of the keys type, host, port and
\* timeout
RawTransports ==
    { Restrict([type |-> t, host |-> "example", port |-> p, timeout |-> 2], K) :
        t \in {"TCP", "udp"}, p \in PortValues, K \in SUBSET {"type", "host", "port", "timeout"} }

NoTransport == [ok |-> FALSE, why |-> "not parsed", type |-> "", host |-> "", port |-> I(0), timeout |-> 0]

InitTransport ==
    /\ pc = "transport"
    /\ raw \in RawTransports
    /\ parsed = NoTransport
    /\ fields = <<>>
    /\ msg = NoMsg
    /\ buf = <<>>
    /\ opsLeft = 0
    /\ applied = <<>>
    /\ out = NoOut
    /\ width = 0
    /\ operations = 0
    /\ runs = <<>>

\* transport = _parse_transport(raw.get("transport", {}))
ParseTransportCall ==
    /\ pc = "transport"
    /\ parsed' = ParseTransport(raw)
    /\ pc' = "transport parsed"
    /\ UNCHANGED <<raw, fields, msg, buf, opsLeft, applied, out, width, runs, operations>>

NextTransport == ParseTransportCall

SpecTransport == InitTransport /\ [][NextTransport]_vars

\* C12: a port supplied as an integer outside 1..65535, 0 and 70000
\* included, makes _parse_transport raise ValueError, and so does a string
\* that is no numeral; a port inside the range is kept; with no port (the
\* key absent, or None) nothing is raised and the port is 0
C12_PortValidation ==
    pc = "transport parsed"
        => /\ ("port" \notin DOMAIN raw \/ raw["port"] = VNone) => (parsed.ok /\ parsed.port = I(0))
           /\ \A n \in PortInts :
                ("port" \in DOMAIN raw /\ raw["port"] = VInt(I(n)))
                    => IF 1 <= n /\ n <= 65535
                       THEN parsed.ok /\ parsed.port = I(n)
                       ELSE ~parsed.ok /\ parsed.why = "invalid port"
           /\ ("port" \in DOMAIN raw /\ raw["port"] \in {VStr(<<48>>), VStr(<<45, 53>>), VStr(<<54, 53, 53, 51, 54>>)})
                => (~parsed.ok /\ parsed.why = "invalid port")
           /\ ("port" \in DOMAIN raw /\ raw["port"] \in {VStr(<<>>), VStr(<<97, 98, 99>>), VStr(<<56, 111>>)})
                => (~parsed.ok /\ parsed.why = "invalid literal")
           /\ ("port" \in DOMAIN raw /\ raw["port"] \in {VStr(<<56, 48>>), VStr(<<32, 56, 48, 32>>), VStr(<<43, 56, 48>>)})
                => (parsed.ok /\ parsed.port = I(80))

\* the explicit port 0 has been rejected
C12_Witness ==
    /\ pc = "transport parsed"
    /\ "port" \in DOMAIN raw
    /\ raw["port"] = VInt(I(0))
    /\ ~parsed.ok
    /\ parsed.why = "invalid port"

---------------------------------------------------------------------------
(* profiles.py and cli.py: SpecProfile, a built-in profile loaded by name
   and its transport overridden from the command line *)

\* the built-in catalog; a timeout of 1.0 is written 1
BUILTIN_SCHEMAS ==
    [
      echo |->
        [ name |-> "Echo Demo",
          transport |-> [type |-> "tcp", host |-> "127.0.0.1", port |-> VInt(I(9000)), timeout |-> 1],
          message |-> [fields |-> <<
                [name |-> "opcode", type |-> "enum", choices |-> <<VInt(I(1)), VInt(I(2)), VInt(I(255))>>, default |-> VInt(I(1))],
                [name |-> "payload_length", type |-> "u16", length_of |-> "payload"],
                [name |-> "payload", type |-> "bytes", min_length |-> 0, max_length |-> 24, fuzz_values |-> <<VStr(<<>>), VStr(<<72, 69, 76, 76, 79>>), VStr(<<68, 69, 65, 68, 66, 69, 69, 70>>)>>] >>] ],
      http |->
        [ name |-> "HTTP Request",
          transport |-> [type |-> "tcp", host |-> "127.0.0.1", port |-> VInt(I(80)), timeout |-> 1],
          message |-> [fields |-> <<
                [name |-> "method", type |-> "string", choices |-> <<VStr(<<71, 69, 84>>), VStr(<<80, 79, 83, 84>>), VStr(<<80, 85, 84>>), VStr(<<68, 69, 76, 69, 84, 69>>), VStr(<<72, 69, 65, 68>>)>>],
                [name |-> "space1", type |-> "string", default |-> VStr(<<32>>)],
                [name |-> "path", type |-> "string", min_length |-> 1, max_length |-> 40, fuzz_values |-> <<VStr(<<47>>), VStr(<<47, 105, 110, 100, 101, 120, 46, 104, 116, 109, 108>>), VStr(<<47, 46, 46, 47, 46, 46, 47, 101, 116, 99, 47, 112, 97, 115, 115, 119, 100>>), VStr(<<47, 37, 48, 48>>), VStr(<<47, 118, 101, 114, 121, 47, 108, 111, 110, 103, 47, 112, 97, 116, 104, 47, 99, 111, 109, 112, 111, 110, 101, 110, 116>>)>>],
                [name |-> "space2", type |-> "string", default |-> VStr(<<32>>)],
                [name |-> "version", type |-> "string", choices |-> <<VStr(<<72, 84, 84, 80, 47, 49, 46, 49>>), VStr(<<72, 84, 84, 80, 47, 49, 46, 48>>)>>, default |-> VStr(<<72, 84, 84, 80, 47, 49, 46, 49>>)],
                [name |-> "crlf", type |-> "string", default |-> VStr(<<13, 10>>)],
                [name |-> "headers", type |-> "string", min_length |-> 0, max_length |-> 200, fuzz_values |-> <<VStr(<<72, 111, 115, 116, 58, 32, 101, 120, 97, 109, 112, 108, 101, 46, 99, 111, 109, 13, 10, 85, 115, 101, 114, 45, 65, 103, 101, 110, 116, 58, 32, 70, 108, 117, 120, 80, 114, 111, 98, 101, 13, 10>>), VStr(<<72, 111, 115, 116, 58, 13, 10>>), VStr(<<72, 111, 115, 116, 58, 32, 101, 120, 97, 109, 112, 108, 101, 46, 99, 111, 109, 13, 10, 67, 111, 110, 116, 101, 110, 116, 45, 76, 101, 110, 103, 116, 104, 58, 32, 48, 13, 10, 88, 45, 84, 101, 115, 116, 58, 32, 65, 13, 10>>), VStr(<<>>)>>],
                [name |-> "end", type |-> "string", default |-> VStr(<<13, 10>>)] >>] ],
      dns |->
        [ name |-> "DNS Query",
          transport |-> [type |-> "udp", host |-> "8.8.8.8", port |-> VInt(I(53)), timeout |-> 1],
          message |-> [fields |-> <<
                [name |-> "transaction_id", type |-> "u16"],
                [name |-> "flags", type |-> "u16", default |-> VInt(I(256))],
                [name |-> "qdcount", type |-> "u16", default |-> VInt(I(1))],
                [name |-> "ancount", type |-> "u16", default |-> VInt(I(0))],
                [name |-> "nscount", type |-> "u16", default |-> VInt(I(0))],
                [name |-> "arcount", type |-> "u16", default |-> VInt(I(0))],
                [name |-> "qname", type |-> "bytes", min_length |-> 4, max_length |-> 40, fuzz_values |-> <<VStr(<<3, 119, 119, 119, 7, 101, 120, 97, 109, 112, 108, 101, 3, 99, 111, 109, 0>>), VStr(<<1, 97, 1, 98, 1, 99, 0>>), VStr(<<0>>)>>],
                [name |-> "qtype", type |-> "u16", choices |-> <<VInt(I(1)), VInt(I(2)), VInt(I(5)), VInt(I(15)), VInt(I(16)), VInt(I(28)), VInt(I(252))>>, default |-> VInt(I(1))],
                [name |-> "qclass", type |-> "u16", choices |-> <<VInt(I(1)), VInt(I(3)), VInt(I(4)), VInt(I(254)), VInt(I(255))>>, default |-> VInt(I(1))] >>] ],
      mqtt |->
        [ name |-> "MQTT Connect",
          transport |-> [type |-> "tcp", host |-> "127.0.0.1", port |-> VInt(I(1883)), timeout |-> 1],
          message |-> [fields |-> <<
                [name |-> "packet_type", type |-> "u8", default |-> VInt(I(16))],
                [name |-> "remaining_length", type |-> "u16", length_of |-> "payload"],
                [name |-> "protocol_name", type |-> "string", default |-> VStr(<<77, 81, 84, 84>>)],
                [name |-> "protocol_level", type |-> "u8", default |-> VInt(I(4))],
                [name |-> "connect_flags", type |-> "u8", default |-> VInt(I(2))],
                [name |-> "keep_alive", type |-> "u16", default |-> VInt(I(60))],
                [name |-> "client_id_length", type |-> "u16", length_of |-> "client_id"],
                [name |-> "client_id", type |-> "string", min_length |-> 0, max_length |-> 24, fuzz_values |-> <<VStr(<<99, 108, 105, 101, 110, 116, 45, 49>>), VStr(<<>>), VStr(<<65, 65, 65, 65, 65, 65, 65, 65, 65, 65, 65, 65, 65, 65, 65, 65, 65, 65, 65, 65, 65, 65, 65>>), VStr(<<110, 117, 108, 108, 0, 105, 100>>)>>],
                [name |-> "payload", type |-> "bytes", min_length |-> 0, max_length |-> 32, fuzz_values |-> <<VStr(<<>>), VStr(<<116, 101, 115, 116>>), VStr(<<117, 115, 101, 114, 110, 97, 109, 101, 0, 112, 97, 115, 115, 119, 111, 114, 100>>)>>] >>] ],
      modbus |->
        [ name |-> "Modbus TCP",
          transport |-> [type |-> "tcp", host |-> "127.0.0.1", port |-> VInt(I(502)), timeout |-> 1],
          message |-> [fields |-> <<
                [name |-> "transaction_id", type |-> "u16"],
                [name |-> "protocol_id", type |-> "u16", default |-> VInt(I(0))],
                [name |-> "length", type |-> "u16", length_of |-> "payload"],
                [name |-> "unit_id", type |-> "u8", default |-> VInt(I(1))],
                [name |-> "function_code", type |-> "enum", choices |-> <<VInt(I(1)), VInt(I(2)), VInt(I(3)), VInt(I(4)), VInt(I(5)), VInt(I(6)), VInt(I(15)), VInt(I(16))>>, default |-> VInt(I(3))],
                [name |-> "payload", type |-> "bytes", min_length |-> 0, max_length |-> 252, fuzz_values |-> <<VStr(<<0, 107, 0, 3>>), VStr(<<0, 0, 0, 16>>), VStr(<<>>)>>] >>] ],
      coap |->
        [ name |-> "CoAP GET",
          transport |-> [type |-> "udp", host |-> "127.0.0.1", port |-> VInt(I(5683)), timeout |-> 1],
          message |-> [fields |-> <<
                [name |-> "ver_t_tkl", type |-> "u8", default |-> VInt(I(64))],
                [name |-> "code", type |-> "enum", choices |-> <<VInt(I(1)), VInt(I(2)), VInt(I(3)), VInt(I(132))>>, default |-> VInt(I(1))],
                [name |-> "message_id", type |-> "u16"],
                [name |-> "token", type |-> "bytes", min_length |-> 0, max_length |-> 8, fuzz_values |-> <<VStr(<<>>), VStr(<<1>>), VStr(<<170, 187, 204, 221>>)>>],
                [name |-> "options", type |-> "bytes", min_length |-> 0, max_length |-> 24, fuzz_values |-> <<VStr(<<182, 118, 101, 114, 115>>), VStr(<<178, 105, 100>>), VStr(<<>>)>>],
                [name |-> "payload", type |-> "bytes", min_length |-> 0, max_length |-> 32, fuzz_values |-> <<VStr(<<>>), VStr(<<116, 101, 115, 116>>), VStr(<<118, 101, 114, 121, 108, 111, 110, 103, 112, 97, 121, 108, 111, 97, 100, 100, 97, 116, 97>>)>>] >>] ],
      tcp |->
        [ name |-> "TCP Raw Payload",
          transport |-> [type |-> "tcp", host |-> "127.0.0.1", port |-> VInt(I(7)), timeout |-> 1],
          message |-> [fields |-> <<
                [name |-> "payload_length", type |-> "u16", length_of |-> "payload"],
                [name |-> "payload", type |-> "bytes", min_length |-> 0, max_length |-> 256, fuzz_values |-> <<VStr(<<>>), VStr(<<80, 73, 78, 71>>), VStr(<<65, 65, 65, 65, 65, 65, 65, 65, 65, 65, 65, 65, 65, 65, 65, 65, 65, 65, 65, 65, 65, 65, 65, 65, 65, 65, 65, 65, 65, 65, 65, 65>>), VStr(<<0, 0, 0, 0>>)>>] >>] ],
      udp |->
        [ name |-> "UDP Payload",
          transport |-> [type |-> "udp", host |-> "127.0.0.1", port |-> VInt(I(9999)), timeout |-> 1],
          message |-> [fields |-> <<
                [name |-> "payload_length", type |-> "u16", length_of |-> "payload"],
                [name |-> "payload", type |-> "bytes", min_length |-> 0, max_length |-> 256, fuzz_values |-> <<VStr(<<>>), VStr(<<72, 69, 76, 76, 79>>), VStr(<<255, 255, 255, 255, 255, 255, 255, 255>>), VStr(<<66, 66, 66, 66, 66, 66, 66, 66, 66, 66, 66, 66, 66, 66, 66, 66, 66, 66, 66, 66, 66, 66, 66, 66, 66, 66, 66, 66, 66, 66, 66, 66, 66, 66, 66, 66, 66, 66, 66, 66, 66, 66, 66, 66, 66, 66, 66, 66, 66, 66, 66, 66, 66, 66, 66, 66, 66, 66, 66, 66, 66, 66, 66, 66>>)>>] >>] ],
      ip |->
        [ name |-> "IPv4 Packet",
          transport |-> [type |-> "udp", host |-> "127.0.0.1", port |-> VInt(I(0)), timeout |-> 1],
          message |-> [fields |-> <<
                [name |-> "version_ihl", type |-> "u8", default |-> VInt(I(69))],
                [name |-> "dscp_ecn", type |-> "u8", default |-> VInt(I(0))],
                [name |-> "total_length", type |-> "u16", min_value |-> VInt(I(20)), max_value |-> VInt(I(1500))],
                [name |-> "identification", type |-> "u16"],
                [name |-> "flags_fragment", type |-> "u16", default |-> VInt(I(16384))],
                [name |-> "ttl", type |-> "u8", default |-> VInt(I(64))],
                [name |-> "protocol", type |-> "u8", choices |-> <<VInt(I(1)), VInt(I(6)), VInt(I(17)), VInt(I(41))>>, default |-> VInt(I(6))],
                [name |-> "header_checksum", type |-> "u16", fuzz_values |-> <<VInt(I(0)), VInt(I(65535))>>, default |-> VInt(I(0))],
                [name |-> "src_ip", type |-> "bytes", length |-> 4, fuzz_values |-> <<VStr(<<127, 0, 0, 1>>), VStr(<<192, 168, 1, 1>>)>>, default |-> VStr(<<127, 0, 0, 1>>)],
                [name |-> "dst_ip", type |-> "bytes", length |-> 4, fuzz_values |-> <<VStr(<<127, 0, 0, 1>>), VStr(<<8, 8, 8, 8>>)>>, default |-> VStr(<<127, 0, 0, 1>>)],
                [name |-> "payload", type |-> "bytes", min_length |-> 0, max_length |-> 1480, fuzz_values |-> <<VStr(<<>>), VStr(<<68, 65, 84, 65>>), VStr(<<255, 255, 255, 255, 255, 255, 255, 255, 255, 255, 255, 255, 255, 255, 255, 255>>)>>] >>] ],
      snmp |->
        [ name |-> "SNMPv2c Get",
          transport |-> [type |-> "udp", host |-> "127.0.0.1", port |-> VInt(I(161)), timeout |-> 1],
          message |-> [fields |-> <<
                [name |-> "pdu", type |-> "bytes", min_length |-> 8, max_length |-> 200, fuzz_values |-> <<VStr(<<48, 38, 2, 1, 1, 4, 6, 112, 117, 98, 108, 105, 99, 160, 25, 2, 4, 0, 0, 0, 1, 2, 1, 0, 2, 1, 0, 48, 11, 48, 9, 6, 5, 43, 6, 1, 2, 1, 5, 0>>), VStr(<<48, 16, 2, 1, 1, 4, 6, 112, 117, 98, 108, 105, 99, 160, 5, 2, 1, 1, 48, 0>>), VStr(<<>>)>>] >>] ],
      ssh |->
        [ name |-> "SSH KEXINIT",
          transport |-> [type |-> "tcp", host |-> "127.0.0.1", port |-> VInt(I(22)), timeout |-> 1],
          message |-> [fields |-> <<
                [name |-> "packet_length", type |-> "u32", min_value |-> VInt(I(0)), max_value |-> VInt(I(4096))],
                [name |-> "padding_length", type |-> "u8", min_value |-> VInt(I(4)), max_value |-> VInt(I(32))],
                [name |-> "payload", type |-> "bytes", min_length |-> 0, max_length |-> 4000, fuzz_values |-> <<VStr(<<83, 83, 72, 45, 50, 46, 48, 45, 70, 108, 117, 120, 80, 114, 111, 98, 101, 13, 10>>), VStr(<<20, 0, 0, 0, 11>>), VStr(<<>>)>>] >>] ] ]

\* protocol_from_dict(raw, default_name): the transport is parsed first, then
\* the message; either may raise
ProtocolSchemaFrom(r, default_name) ==
    LET t == ParseTransport(Get(r, "transport", EmptyDict))
        m == ParseMessage(Get(r["message"], "fields", <<>>))
    IN  IF ~t.ok
        THEN [ok |-> FALSE, why |-> t.why, name |-> "", transport |-> NoTransport, fields |-> <<>>]
        ELSE IF ~m.ok
        THEN [ok |-> FALSE, why |-> m.why, name |-> "", transport |-> NoTransport, fields |-> <<>>]
        ELSE [ok |-> TRUE, why |-> "", name |-> Get(r, "name", default_name), transport |-> t, fields |-> m.fields]

\* load_profile(name)
LoadProfile(name) ==
    IF Lower(name) \notin DOMAIN BUILTIN_SCHEMAS
    THEN [ok |-> FALSE, why |-> "unknown profile", name |-> "", transport |-> NoTransport, fields |-> <<>>]
    ELSE ProtocolSchemaFrom(BUILTIN_SCHEMAS[Lower(name)], Lower(name))

\* main, after the schema is loaded: "if args.host" and "if args.port"
\* override the transport; a port of 0 or None overrides nothing
Override(schema, args) ==
    [schema EXCEPT !.transport.host = IF args.host # "" THEN args.host ELSE @,
                   !.transport.port = IF args.port # NoInt /\ args.port # 0 THEN I(args.port) ELSE @]

\* the values of --protocol: the catalog's names, three of them in other
\* case, and a name the catalog does not have
ProfileNames == (DOMAIN BUILTIN_SCHEMAS) \cup {"IP", "Echo", "SSH", "nope"}

\* the command lines: --protocol, --host (or none) and --port (or none)
ProfileArgs == [protocol : ProfileNames, host : {"", "example"}, port : {NoInt, 0, 1, 8080}]

NoSchema == [ok |-> FALSE, why |-> "not loaded", name |-> "", transport |-> NoTransport, fields |-> <<>>]

InitProfile ==
    /\ pc = "load"
    /\ raw \in ProfileArgs
    /\ parsed = NoSchema
    /\ fields = <<>>
    /\ msg = NoMsg
    /\ buf = <<>>
    /\ opsLeft = 0
    /\ applied = <<>>
    /\ out = NoOut
    /\ width = 0
    /\ operations = 0
    /\ runs = <<>>

\* schema = load_profile(args.protocol)
LoadProfileCall ==
    /\ pc = "load"
    /\ parsed' = LoadProfile(raw.protocol)
    /\ fields' = parsed'.fields
    /\ pc' = IF parsed'.ok THEN "loaded" ELSE "load raised"
    /\ UNCHANGED <<raw, msg, buf, opsLeft, applied, out, width, runs, operations>>

\* schema.transport.host = args.host; schema.transport.port = args.port
OverrideTransport ==
    /\ pc = "loaded"
    /\ parsed' = Override(parsed, raw)
    /\ pc' = "ready"
    /\ UNCHANGED <<raw, fields, msg, buf, opsLeft, applied, out, width, runs, operations>>

NextProfile == LoadProfileCall \/ OverrideTransport

SpecProfile == InitProfile /\ [][NextProfile]_vars

\* C23: load_profile returns a ProtocolSchema for every name of the built-in
\* catalog, a profile whose transport port is 0 included
C23_EveryProfileLoads ==
    (pc \in {"loaded", "load raised", "ready"} /\ Lower(raw.protocol) \in DOMAIN BUILTIN_SCHEMAS)
        => parsed.ok

---------------------------------------------------------------------------
(* SpecGen: generate_valid_message on the schemas protocol_from_dict accepts *)

\* longest schema generated from
MaxGenFields == 3

\* draws an rng stream holds before its zeros
MaxDraws == 3

\* the values a draw takes: 0 and 2 count up from the low end of a range, 1
\* counts down from its high end
DrawValues == {0, 1, 2}

Streams == UNION {[1..k -> DrawValues] : k \in 0..MaxDraws}

\* the field at position i is called PositionName[i], unless the schema
\* repeats its first name in its last field
PositionName == <<"a", "b", "c", "d", "e", "f">>

\* the raw fields of SpecGen, without their names
GenTemplates ==
    { [type |-> "u8"],
      [type |-> "u16", default |-> VInt(I(1234))],
      [type |-> "u32"],
      [type |-> "bytes", min_length |-> 1, max_length |-> 2],
      [type |-> "string", default |-> VStr(<<104, 233>>), encoding |-> "utf-8"],
      [type |-> "string", default |-> VStr(<<104, 233>>)],
      [type |-> "enum", choices |-> <<VInt(I(1)), VInt(I(2)), VInt(I(255))>>, default |-> VInt(I(1))],
      [type |-> "enum", choices |-> <<VInt(I(1)), VInt(I(300))>>],
      [type |-> "enum", choices |-> <<VInt(I(1)), VInt(I(300))>>, length |-> 2],
      [type |-> "enum", choices |-> <<VStr(<<71, 69, 84>>)>>] }
    \cup {[type |-> "u8", length_of |-> t] : t \in FieldNames}
    \cup {[type |-> "u16", length_of |-> t] : t \in FieldNames}

\* template plus name
Named(t, n) == [k \in (DOMAIN t) \cup {"name"} |-> IF k = "name" THEN n ELSE t[k]]

GenRawMessages ==
    UNION { { [i \in 1..n |-> Named(tm[i], IF dup /\ i = n THEN PositionName[1] ELSE PositionName[i])] :
                tm \in [1..n -> GenTemplates], dup \in BOOLEAN }
            : n \in 1..MaxGenFields }

InitGen ==
    /\ pc = "generate"
    /\ raw \in GenRawMessages
    /\ parsed = ParseMessage(raw)
    /\ parsed.ok
    /\ fields = parsed.fields
    /\ msg = NoMsg
    /\ buf = <<>>
    /\ opsLeft = 0
    /\ applied = <<>>
    /\ out = NoOut
    /\ width = 0
    /\ operations = 0
    /\ runs = <<>>

\* msg = generate_valid_message(schema, rng)
Generate ==
    /\ pc = "generate"
    /\ \E rng \in Streams : msg' = GenerateValidMessage(fields, rng)
    /\ pc' = "generated"
    /\ UNCHANGED <<raw, parsed, fields, buf, opsLeft, applied, out, width, runs, operations>>

NextGen == Generate

SpecGen == InitGen /\ [][NextGen]_vars

---------------------------------------------------------------------------
(* Claims about generate_valid_message (SpecGen) *)

FieldNamesOf(fs) == {fs[i].name : i \in 1..Len(fs)}

Generated == pc = "generated" /\ msg.ok

\* the number of bytes the field called n occupies in the message
SpanLength(m, n) == m.field_spans[n][2] - m.field_spans[n][1]

\* C1: in every generated message each derived-length field L (length_of = T)
\* has values[L] equal to the number of bytes T's value is serialized to,
\* also when T is itself derived and whatever the declaration order
\* (stated for schemas of pairwise distinct field names)
C1_DerivedLengthIsTargetSize ==
    (Generated /\ DistinctNames(fields))
        => \A i \in 1..Len(fields) :
               fields[i].length_of # ""
                   => msg.values[fields[i].name] = VInt(I(SpanLength(msg, fields[i].length_of)))

\* the span recorded for the field at position i
SpanAt(m, fs, i) == m.field_spans[fs[i].name]

\* C8: field_spans has exactly the schema's field names as keys and, in
\* declaration order, the spans tile the buffer: the first starts at 0, each
\* next starts where the previous ends, the last ends at len(data), and
\* data[start:end] is the field's serialized bytes
C8_SpansTileBuffer ==
    Generated
        => /\ DOMAIN msg.field_spans = FieldNamesOf(fields)
           /\ SpanAt(msg, fields, 1)[1] = 0
           /\ \A i \in 1..(Len(fields) - 1) : SpanAt(msg, fields, i + 1)[1] = SpanAt(msg, fields, i)[2]
           /\ SpanAt(msg, fields, Len(fields))[2] = Len(msg.data)
           /\ \A i \in 1..Len(fields) :
                  SliceGet(msg.data, SpanAt(msg, fields, i)[1], SpanAt(msg, fields, i)[2])
                      = EnsureBytes(msg.values[fields[i].name], fields[i]).b

\* C10: for every enum field whose resolved value is an integer, the number
\* of bytes the generator emits is the width _width_bytes infers
\* (stated for schemas of pairwise distinct field names)
C10_EnumBytesMatchWidth ==
    (Generated /\ DistinctNames(fields))
        => \A i \in 1..Len(fields) :
               (fields[i].type = "enum" /\ msg.values[fields[i].name].k = "int")
                   => SpanLength(msg, fields[i].name) = WidthBytes(fields[i])

---------------------------------------------------------------------------
(* SpecSerial: generate_valid_message on fields of every type, supported or not *)

\* longest schema of SpecSerial
MaxSerialFields == 2

\* the types _generate_field_value and _ensure_bytes know
SupportedTypes == {"u8", "u16", "u32", "enum", "bytes", "string"}

\* the raw fields of SpecSerial, without their names: integers generated or
\* given by default, in range and out of it, and fields of type "float"
\* with and without default, choices and length_of
SerialTemplates ==
    { [type |-> "u8"], [type |-> "u16"], [type |-> "u32"],
      [type |-> "u8", default |-> VInt(I(0))],
      [type |-> "u8", default |-> VInt(I(255))],
      [type |-> "u8", default |-> VInt(I(-1))],
      [type |-> "u16", default |-> VInt(I(1234))],
      [type |-> "u16", default |-> VInt(I(65535))],
      [type |-> "u16", default |-> VInt(I(70000))],
      [type |-> "u32", default |-> VInt(I(65536))],
      [type |-> "u32", default |-> VInt([hi |-> 65535, lo |-> 65535])],
      [type |-> "bytes", default |-> VBytes(<<1, 2>>)],
      [type |-> "float"],
      [type |-> "float", default |-> VStr(<<104, 105>>)],
      [type |-> "float", default |-> VBytes(<<104, 105>>)],
      [type |-> "float", default |-> VInt(I(5))],
      [type |-> "float", choices |-> <<VStr(<<120>>)>>],
      [type |-> "float", choices |-> <<VInt(I(3))>>] }
    \cup {[type |-> "u8", length_of |-> t] : t \in {"a", "b"}}
    \cup {[type |-> "float", length_of |-> t] : t \in {"a", "b"}}

\* value: u16 with default 1234, then len_of_value: u8 with length_of value
SerialExample ==
    << [name |-> "value", type |-> "u16", default |-> VInt(I(1234))],
       [name |-> "len_of_value", type |-> "u8", length_of |-> "value"] >>

SerialRawMessages ==
    {SerialExample}
        \cup UNION { { [i \in 1..n |-> Named(tm[i], IF dup /\ i = n THEN PositionName[1] ELSE PositionName[i])] :
                         tm \in [1..n -> SerialTemplates], dup \in BOOLEAN }
                     : n \in 1..MaxSerialFields }

InitSerial ==
    /\ pc = "generate"
    /\ raw \in SerialRawMessages
    /\ parsed = ParseMessage(raw)
    /\ parsed.ok
    /\ fields = parsed.fields
    /\ msg = NoMsg
    /\ buf = <<>>
    /\ opsLeft = 0
    /\ applied = <<>>
    /\ out = NoOut
    /\ width = 0
    /\ operations = 0
    /\ runs = <<>>

SpecSerial == InitSerial /\ [][NextGen]_vars

\* C15: generate_valid_message raises for every schema that contains a field
\* of unsupported type, whether or not the field has a default, choices or
\* length_of
C15_UnsupportedTypeRaises ==
    (pc = "generated" /\ \E i \in 1..Len(fields) : fields[i].type \notin SupportedTypes)
        => ~msg.ok

\* the byte width of an integer type, 0 for any other type
IntTypeWidth(t) ==
    CASE t = "u8" -> 1
      [] t = "u16" -> 2
      [] t = "u32" -> 4
      [] OTHER -> 0

\* data is, from field i on, the fields' bytes one after the other, and each
\* u8/u16/u32 field whose value is an integer v with 0 <= v <= 2^(8w) - 1
\* takes exactly w bytes that read big-endian as v
RECURSIVE SerializedInOrder(_, _, _, _)
SerializedInOrder(fs, i, values, data) ==
    IF i > Len(fs)
    THEN data = <<>>
    ELSE LET v == values[fs[i].name]
             w == IntTypeWidth(fs[i].type)
         IN  IF w > 0 /\ v.k = "int" /\ ILeq(I(0), v.i) /\ ILeq(v.i, MaxOfWidth(w))
             THEN /\ Len(data) >= w
                  /\ FromBytes(SubSeq(data, 1, w)) = v.i
                  /\ SerializedInOrder(fs, i + 1, values, SubSeq(data, w + 1, Len(data)))
             ELSE LET b == EnsureBytes(v, fs[i]).b
                  IN  /\ Len(data) >= Len(b)
                      /\ SubSeq(data, 1, Len(b)) = b
                      /\ SerializedInOrder(fs, i + 1, values, SubSeq(data, Len(b) + 1, Len(data)))

\* C16: a u8, u16 or u32 field whose value is an integer v in range is
\* serialized to exactly 1, 2 or 4 bytes, the big-endian unsigned encoding of
\* v; the message is the concatenation of the fields' bytes in declaration
\* order; value: u16 = 1234 followed by len_of_value: u8 gives 04 D2 02
C16_BigEndianInOrder ==
    pc = "generated"
        => /\ msg.ok => SerializedInOrder(fields, 1, msg.values, msg.data)
           /\ raw = SerialExample => (msg.ok /\ msg.data = <<4, 210, 2>>)

C16_Witness ==
    /\ pc = "generated"
    /\ raw = SerialExample
    /\ msg.ok
    /\ msg.values["value"] = VInt(I(1234))
    /\ msg.data = <<4, 210, 2>>

\* C29: the generator never truncates an integer: for every u8, u16 or u32
\* field of a generated message, the span of the field read as a big-endian
\* unsigned integer is the value recorded in values[name], and for a
\* derived-length field it is the byte length of the target's span
\* (stated for schemas of pairwise distinct field names)
C29_NoSilentTruncation ==
    (Generated /\ DistinctNames(fields))
        => \A i \in 1..Len(fields) :
               (IntTypeWidth(fields[i].type) > 0 /\ msg.values[fields[i].name].k = "int")
                   => LET held == FromBytes(SliceGet(msg.data, SpanAt(msg, fields, i)[1], SpanAt(msg, fields, i)[2]))
                      IN  /\ held = msg.values[fields[i].name].i
                          /\ fields[i].length_of # "" => held = I(SpanLength(msg, fields[i].length_of))

---------------------------------------------------------------------------
(* SpecLength: generate_valid_message on fields of the supported types with
   length, min/max bounds, default, fuzz_values and length_of settings *)

\* longest schema of SpecLength
MaxLengthFields == 2

\* the raw fields of SpecLength, without their names
LengthTemplates ==
    { [type |-> "u8"],
      [type |-> "u8", min_value |-> VInt(I(5)), max_value |-> VInt(I(1))],
      [type |-> "enum", length |-> 3],
      [type |-> "bytes", length |-> 2],
      [type |-> "bytes", length |-> 2, min_length |-> 3, max_length |-> 1],
      [type |-> "bytes", length |-> 2, fuzz_values |-> <<VBytes(<<1, 2, 3>>)>>],
      [type |-> "bytes", length |-> 2, default |-> VBytes(<<9>>)],
      [type |-> "bytes", min_length |-> 2, max_length |-> 1],
      [type |-> "bytes", default |-> VInt(I(5))],
      [type |-> "string", length |-> 2],
      [type |-> "string", length |-> 2, encoding |-> "utf-8"],
      [type |-> "string", length |-> 2, fuzz_values |-> <<VStr(<<97, 98, 99>>)>>] }
    \cup {[type |-> "u8", length_of |-> t] : t \in {"a", "b"}}

LengthRawMessages ==
    UNION { { [i \in 1..n |-> Named(tm[i], IF dup /\ i = n THEN PositionName[1] ELSE PositionName[i])] :
                tm \in [1..n -> LengthTemplates], dup \in BOOLEAN }
            : n \in 1..MaxLengthFields }

InitLength ==
    /\ pc = "generate"
    /\ raw \in LengthRawMessages
    /\ parsed = ParseMessage(raw)
    /\ parsed.ok
    /\ fields = parsed.fields
    /\ msg = NoMsg
    /\ buf = <<>>
    /\ opsLeft = 0
    /\ applied = <<>>
    /\ out = NoOut
    /\ width = 0
    /\ operations = 0
    /\ runs = <<>>

SpecLength == InitLength /\ [][NextGen]_vars

\* C21: for every schema protocol_from_dict accepts whose field types are
\* all among u8, u16, u32, enum, bytes and string, generate_valid_message
\* completes without raising
C21_GenerationNeverRaises ==
    (pc = "generated" /\ \A i \in 1..Len(fields) : fields[i].type \in SupportedTypes)
        => msg.ok

\* C22: a bytes or string field with length = n and neither default nor
\* choices occupies exactly n bytes of the generated message, whatever its
\* min_length, max_length, encoding and fuzz_values
\* (stated for schemas of pairwise distinct field names)
C22_LengthIsExact ==
    (Generated /\ DistinctNames(fields))
        => \A i \in 1..Len(fields) :
               (/\ fields[i].type \in {"bytes", "string"}
                /\ fields[i].length # NoInt
                /\ fields[i].length_of = ""
                /\ fields[i].default.k = "none"
                /\ fields[i].choices = <<>>)
                   => SpanLength(msg, fields[i].name) = fields[i].length

---------------------------------------------------------------------------
(* SpecWidth: _width_bytes on single fields *)

WidthChoiceLists ==
    { <<>>,
      <<VInt(I(1)), VInt(I(2)), VInt(I(255))>>,
      <<VInt(I(1)), VInt(I(256)), VInt(I(1000))>>,
      <<VInt(I(65535)), VInt(I(7))>>,
      <<VInt(I(65536))>>,
      <<VInt(I(1)), VInt(I(70000))>>,
      <<VInt(MaxOfWidth(4))>>,
      <<VStr(<<71, 69, 84>>)>>,
      <<VStr(<<71, 69, 84>>), VInt(I(300))>>,
      <<VInt(I(300)), VStr(<<80, 85, 84>>), VInt(I(3))>> }

WidthInputs ==
    { [name |-> "a", type |-> t, choices |-> cs] : t \in {"enum", "u8", "u16", "u32", "bytes"}, cs \in WidthChoiceLists }
    \cup { [name |-> "a", type |-> t, choices |-> cs, length |-> n] :
             t \in {"enum", "u16", "string"}, cs \in WidthChoiceLists, n \in {0, 1, 2, 3, 4} }

InitWidth ==
    /\ pc = "width"
    /\ raw \in {<<r>> : r \in WidthInputs}
    /\ parsed = ParseMessage(raw)
    /\ fields = parsed.fields
    /\ msg = NoMsg
    /\ buf = <<>>
    /\ opsLeft = 0
    /\ applied = <<>>
    /\ out = NoOut
    /\ width = 0
    /\ operations = 0
    /\ runs = <<>>

\* width = _width_bytes(field)
ComputeWidth ==
    /\ pc = "width"
    /\ width' = WidthBytes(fields[1])
    /\ pc' = "width done"
    /\ UNCHANGED <<raw, parsed, fields, msg, buf, opsLeft, applied, out, runs, operations>>

NextWidth == ComputeWidth

SpecWidth == InitWidth /\ [][NextWidth]_vars

\* the integers among a field's choices
IntChoiceSet(f) == {f.choices[i].i : i \in {j \in 1..Len(f.choices) : f.choices[j].k = "int"}}

\* the width the claim gives an enum field without a length
InferredWidth(f) ==
    IF IntChoiceSet(f) = {} THEN 1
    ELSE IF \A c \in IntChoiceSet(f) : ILeq(c, I(255)) THEN 1
    ELSE IF \A c \in IntChoiceSet(f) : ILeq(c, I(65535)) THEN 2
    ELSE 4

---------------------------------------------------------------------------
(* SpecMut: Mutator.mutate, one iteration of its loop per step, on generated
   messages and on GeneratedMessages built by hand as the tests build them *)

\* largest operations argument
MaxOps == 2

\* the schemas mutated: a length field of each width, before and after its
\* target; an enum with integer choices next to the largest value of its
\* width; an enum with string choices and a negative length, which
\* protocol_from_dict accepts; the fields of the built-in echo profile
MutRawMessages ==
    { <<[name |-> "len", type |-> "u8", length_of |-> "payload"],
        [name |-> "payload", type |-> "bytes", length |-> 1]>>,
      <<[name |-> "payload", type |-> "bytes", length |-> 2],
        [name |-> "len", type |-> "u16", length_of |-> "payload"]>>,
      <<[name |-> "len", type |-> "u32", length_of |-> "payload"],
        [name |-> "payload", type |-> "bytes", length |-> 1]>>,
      <<[name |-> "kind", type |-> "enum", choices |-> <<VInt(I(1)), VInt(I(250))>>],
        [name |-> "v", type |-> "u8"]>>,
      <<[name |-> "e", type |-> "enum", choices |-> <<VStr(<<120>>)>>, length |-> -1]>>,
      BUILTIN_SCHEMAS.echo.message.fields }

\* the values a length field of w bytes is given: both ends of its range and
\* both sides of the half below which _corrupt_length offers the doubling
LengthSamples(w) ==
    { I(0), I(1), ISub(IHalf(MaxOfWidth(w)), I(1)), IHalf(MaxOfWidth(w)),
      ISub(MaxOfWidth(w), I(1)), MaxOfWidth(w) }

\* the value a field of a hand-built message has, c being that of a length
\* field
SampleValue(f, c) ==
    IF f.length_of # "" THEN VInt(c)
    ELSE IF f.choices # <<>> THEN f.choices[1]
    ELSE IF f.type = "bytes" THEN VBytes([j \in 1..f.length |-> 7])
    ELSE VInt(I(9))

\* GeneratedMessage(data=..., values=..., field_spans=...) built by hand
HandBuilt(fs, c) ==
    LET values == [n \in {fs[i].name : i \in 1..Len(fs)} |-> SampleValue(fs[FieldMap(fs)[n]], c)]
        p3 == Serialize(fs, 1, values, <<>>, EmptyDict)
    IN  [ok |-> p3.ok, data |-> p3.data, values |-> values, field_spans |-> p3.field_spans, rng |-> <<>>]

\* GeneratedMessage(data=b"", values={}, field_spans={})
EmptyMsg == [ok |-> TRUE, data |-> <<>>, values |-> EmptyDict, field_spans |-> EmptyDict, rng |-> <<>>]

\* the width of the schema's first length field, 1 when it has none
SampleWidth(fs) == IF LengthFields(fs) = <<>> THEN 1 ELSE WidthBytes(fs[LengthFields(fs)[1]])

MutMessages(fs) ==
    {m \in {EmptyMsg}
            \cup {HandBuilt(fs, c) : c \in LengthSamples(SampleWidth(fs))}
            \cup {[GenerateValidMessage(fs, rng) EXCEPT !.rng = <<>>] : rng \in {<<0>>, <<1>>}} : m.ok}

\* the draws of one iteration of mutate's loop: the operator, then the two
\* draws the operators make at most
MutStreams == {<<a, b, c>> : a \in 0..5, b \in 0..1, c \in 0..4}

InitMut ==
    /\ pc = "mutate"
    /\ raw \in MutRawMessages
    /\ parsed = ParseMessage(raw)
    /\ parsed.ok
    /\ fields = parsed.fields
    /\ msg \in MutMessages(fields)
    /\ buf = <<>>
    /\ opsLeft = 0
    /\ applied = <<>>
    /\ out = NoOut
    /\ width = 0
    /\ operations = 0
    /\ runs = <<>>

\* mutate(msg, rng, operations), up to its loop: buf = bytearray(msg.data)
MutateBegin ==
    /\ pc = "mutate"
    /\ buf' = msg.data
    /\ \E n \in -1..MaxOps :
         /\ operations' = n
         /\ opsLeft' = LoopCount(n)
    /\ pc' = "mutating"
    /\ UNCHANGED <<raw, parsed, fields, msg, applied, out, width, runs>>

\* one iteration of mutate's loop: choice = rng.choice([...]);
\* choice(buf, msg, rng).  An exception of the operator leaves mutate.
MutateOp ==
    /\ pc = "mutating"
    /\ opsLeft > 0
    /\ \E rng \in MutStreams :
         LET r == MutateOnce(fields, msg, buf, rng)
         IN  /\ applied' = Append(applied, [op |-> ChosenOperator(rng), draws |-> Advance(rng)])
             /\ buf' = r.buf
             /\ msg' = MsgAfter(msg, r.buf)
             /\ IF r.ok
                THEN /\ opsLeft' = opsLeft - 1
                     /\ pc' = "mutating"
                ELSE /\ opsLeft' = opsLeft
                     /\ pc' = "raised"
    /\ UNCHANGED <<raw, parsed, fields, out, width, runs, operations>>

\* return bytes(buf)
MutateReturn ==
    /\ pc = "mutating"
    /\ opsLeft = 0
    /\ out' = [ok |-> TRUE, data |-> buf]
    /\ pc' = "returned"
    /\ UNCHANGED <<raw, parsed, fields, msg, buf, opsLeft, applied, width, runs, operations>>

NextMut == MutateBegin \/ MutateOp \/ MutateReturn

SpecMut == InitMut /\ [][NextMut]_vars

---------------------------------------------------------------------------
(* Claims about Mutator.mutate (SpecMut) *)

\* C4, as the claim states it: whatever the schema, the message and the
\* operators drawn, no operator raises
C4_MutateNeverRaises == pc # "raised"

CorruptLengthStep ==
    /\ pc = "mutating"
    /\ Len(applied') = Len(applied) + 1
    /\ applied'[Len(applied')].op = "corrupt_length"
    /\ Len(LengthFields(fields)) = 1
    /\ fields[LengthFields(fields)[1]].name \in DOMAIN msg.field_spans
    /\ WidthBytes(fields[LengthFields(fields)[1]]) >= 0

TheLengthField == fields[LengthFields(fields)[1]]

SpanStart == msg.field_spans[TheLengthField.name][1]

SpanEnd == msg.field_spans[TheLengthField.name][2]

\* the value the span holds in b
SpanValue(b) == FromBytes(SliceGet(b, SpanStart, SpanEnd))

\* the offset the step chose: the offsets on offer are -2, -1, +1, +2 and,
\* for a current value below half the maximum, twice the value plus one
ChosenOffset(current, max_value, draw) ==
    LET offers == <<I(-2), I(-1), I(1), I(2)>>
                    \o (IF ILess(current, IHalf(max_value))
                        THEN <<IAdd(IAdd(current, current), I(1))>>
                        ELSE <<>>)
    IN  offers[1 + (draw % Len(offers))]

\* the value of the w bytes that follow position p of b
ValueAt(b, p, w) == FromBytes(SubSeq(b, p + 1, p + w))

\* C6, as the claim states it: in corrupt_length a negative result is clamped
\* to 0 and a result above the largest value of the width, 2^(8w) - 1, is
\* replaced by that largest value
C6_SaturatesToMaximum ==
    [][CorruptLengthStep =>
        LET w == WidthBytes(TheLengthField)
            max_value == MaxOfWidth(w)
            current == SpanValue(buf)
            result == IAdd(current, ChosenOffset(current, max_value, applied'[Len(applied')].draws[2]))
            written == ValueAt(buf', Min(SpanStart, Len(buf)), w)
        IN  /\ ILess(result, I(0)) => written = I(0)
            /\ ILess(max_value, result) => written = max_value]_vars

\* C7: for a length field of width w (1, 2 or 4) whose span of w bytes lies
\* inside the buffer, whatever value the span holds, corrupt_length does not
\* raise, leaves the length of the buffer and the bytes outside the span as
\* they were, and leaves in the span a value in 0 .. 2^(8w) - 1
C7_CorruptLengthKeepsWidth ==
    [][(/\ CorruptLengthStep
        /\ WidthBytes(TheLengthField) \in {1, 2, 4}
        /\ SpanEnd - SpanStart = WidthBytes(TheLengthField)
        /\ SpanEnd <= Len(buf))
       => (/\ pc' # "raised"
           /\ Len(buf') = Len(buf)
           /\ SubSeq(buf', 1, SpanStart) = SubSeq(buf, 1, SpanStart)
           /\ SubSeq(buf', SpanEnd + 1, Len(buf')) = SubSeq(buf, SpanEnd + 1, Len(buf))
           /\ \A j \in (SpanStart + 1)..SpanEnd : buf'[j] \in 0..255
           /\ ILeq(I(0), SpanValue(buf'))
           /\ ILeq(SpanValue(buf'), MaxOfWidth(WidthBytes(TheLengthField))))]_vars

\* corrupt_length, the first operator applied, found 255 in the span of a u8
\* length field and chose the offset +1; the buffer is as long as before
C7_Witness ==
    /\ pc \in {"mutating", "returned"}
    /\ Len(applied) = 1
    /\ applied[1].op = "corrupt_length"
    /\ Len(LengthFields(fields)) = 1
    /\ TheLengthField.type = "u8"
    /\ TheLengthField.name \in DOMAIN msg.field_spans
    /\ SpanValue(msg.data) = I(255)
    /\ applied[1].draws[2] = 2
    /\ Len(buf) = Len(msg.data)

\* C25: in corrupt_length the doubling offer, made only when the current
\* value c is below floor(max / 2), never overflows the width of the field:
\* whenever it is chosen, the value c + (2c + 1) is at most 2^(8w) - 1 and is
\* what the span holds afterwards (the overflow fallback is not taken)
C25_DoublingNeverOverflows ==
    [][(/\ CorruptLengthStep
        /\ WidthBytes(TheLengthField) \in {1, 2, 4}
        /\ SpanEnd - SpanStart = WidthBytes(TheLengthField)
        /\ SpanEnd <= Len(buf)
        /\ ILess(SpanValue(buf), IHalf(MaxOfWidth(WidthBytes(TheLengthField))))
        /\ applied'[Len(applied')].draws[2] % 5 = 4)
       => LET current == SpanValue(buf)
              result == IAdd(current, IAdd(IAdd(current, current), I(1)))
          IN  /\ ILeq(result, MaxOfWidth(WidthBytes(TheLengthField)))
              /\ SpanValue(buf') = result]_vars

\* C26: mutate with operations >= 1 returns bytes that differ from msg.data,
\* for every message that is not empty
C26_MutatedDiffers ==
    (pc = "returned" /\ operations >= 1 /\ msg.data # <<>>) => out.data # msg.data

\* the step applies invalid_enum
InvalidEnumStep ==
    /\ pc = "mutating"
    /\ Len(applied') = Len(applied) + 1
    /\ applied'[Len(applied')].op = "invalid_enum"
    /\ EnumFields(fields) # <<>>

\* the enum field rng.choice(self.enum_fields) picks on the draw d
EnumFieldChosen(d) == fields[EnumFields(fields)[ChoiceIndex(Len(EnumFields(fields)), d)]]

\* the integers among the declared choices of f
DeclaredInts(f) == {IntChoices(f)[k].i : k \in 1..Len(IntChoices(f))}

\* C27: after invalid_enum is applied to an enum field with integer choices
\* whose span lies inside the buffer, the integer the span holds is not one
\* of the declared choices of the field
C27_InvalidEnumIsInvalid ==
    [][InvalidEnumStep =>
        LET f == EnumFieldChosen(applied'[Len(applied')].draws[1])
        IN  (/\ f.name \in DOMAIN msg.field_spans
             /\ IntChoices(f) # <<>>
             /\ msg.field_spans[f.name][2] <= Len(buf))
                => FromBytes(SliceGet(buf', msg.field_spans[f.name][1], msg.field_spans[f.name][2]))
                       \notin DeclaredInts(f)]_vars

\* C28: only truncate and extend change the length of the buffer: in every
\* state mutate's loop reaches, bit_flip, random_byte, corrupt_length and
\* invalid_enum leave len(buf) as it was
C28_OnlyTruncateAndExtendResize ==
    [][(/\ pc = "mutating"
        /\ Len(applied') = Len(applied) + 1
        /\ applied'[Len(applied')].op \in {"bit_flip", "random_byte", "corrupt_length", "invalid_enum"})
       => Len(buf') = Len(buf)]_vars

\* C17: mutate(msg, rng, operations = n) applies exactly n operators, for
\* every n >= 0; with n = 0 it returns msg.data unchanged
C17_AppliesExactlyOperations ==
    (pc = "returned" /\ operations >= 0)
        => /\ Len(applied) = operations
           /\ operations = 0 => out.data = msg.data

---------------------------------------------------------------------------
(* runner.py *)

\* the length of the stream a seed stands for
SeedDraws == 2

\* the stream of draws of random.Random(seed): the digits of the seed in base
\* 6, so that the seeds 0 .. 6^SeedDraws - 1 stand for every stream of
\* SeedDraws draws in 0..5
RECURSIVE SeedStream(_, _)
SeedStream(seed, n) == IF n = 0 THEN <<>> ELSE <<seed % 6>> \o SeedStream(seed \div 6, n - 1)

\* a mutant of FuzzRunner.__init__: the rng is not seeded from config.seed
NewRandomUnseeded(seed, entropy) == entropy

\* random.Random(config.seed): a seed of None seeds the generator from the
\* operating system's entropy
NewRandom(seed, entropy) == IF seed = NoInt THEN entropy ELSE SeedStream(seed, SeedDraws)

\* rng.random() < config.mutation_rate, the rate in tenths and rng.random()
\* being (d mod 10) / 10
RandomBelow(d, tenths) == (d % 10) < tenths

\* one call of a transport method, made in iteration idx (0 for close); ok
\* is FALSE when the call raised
Call(op, idx, ok) == [op |-> op, idx |-> idx, ok |-> ok]

\* FuzzRunner(schema, config), before run(): the log file is opened if one
\* is configured; peer is the kind of endpoint the run's transport will talk to, a "reliable" one
\* whose calls never raise or a "faulty" one
NewRunner(config, entropy, peer) ==
    [ config |-> config,
      rng |-> NewRandom(config.seed, entropy),
      idx |-> 0,
      log |-> <<>>,
      raised |-> FALSE,
      status |-> "new",
      peer |-> peer,
      transport |-> FALSE,
      calls |-> <<>>,
      log_fp |-> IF config.log_file THEN "open" ELSE "none" ]

\* run, up to its loop: the transport is created unless the run is dry, and
\* an exception of create_transport (connect refused) leaves run at once
Start(run, connects) ==
    IF run.config.dry_run
    THEN [run EXCEPT !.status = "running"]
    ELSE IF connects
    THEN [run EXCEPT !.status = "running", !.transport = TRUE]
    ELSE [run EXCEPT !.status = "closed", !.raised = TRUE]

\* the finally block of run: "if transport: transport.close()"; close
\* swallows the OSError of the socket
CloseTransport(run) ==
    IF run.transport
    THEN [run EXCEPT !.calls = Append(@, Call("close", 0, TRUE))]
    ELSE run

\* the finally block of run: "if self._log_fp: self._log_fp.close()"
CloseLog(run) == IF run.log_fp = "open" THEN [run EXCEPT !.log_fp = "closed"] ELSE run

\* a mutant of run: an exception of the loop body leaves run without the
\* finally block
AbortLeavesOpen(run, rng) == [run EXCEPT !.rng = rng, !.raised = TRUE, !.status = "closed"]

\* an exception of the loop body: there is no except clause, the finally
\* block runs and the exception leaves run
Abort(run, rng) == [CloseLog(CloseTransport(run)) EXCEPT !.rng = rng, !.raised = TRUE, !.status = "closed"]

\* run after a call of transport.send or transport.recv in its iteration
\* idx + 1
Called(run, op, ok) == [run EXCEPT !.calls = Append(@, Call(op, run.idx + 1, ok))]

\* the end of an iteration: the line logged holds the kind (M or V), the
\* payload and the response
Logged(run, mutated, p, response) ==
    [run EXCEPT !.rng = p.rng,
                !.idx = run.idx + 1,
                !.log = Append(run.log, [mutated |-> mutated, payload |-> p.buf, response |-> response])]

\* the second half of an iteration of run's loop, p being the payload and the
\* rng (or the exception of mutate): the payload is sent, or only logged in
\* a dry run, and the response received when recv_timeout is positive; net
\* is what the transport does with the two calls
SendAndLog(run, mutated, p, net) ==
    IF ~p.ok
    THEN Abort(run, p.rng)
    ELSE IF run.config.dry_run
    THEN Logged(run, mutated, p, <<>>)
    ELSE IF ~net.send_ok
    THEN Abort(Called(run, "send", FALSE), p.rng)
    ELSE IF run.config.recv_timeout > 0
    THEN IF ~net.recv_ok
         THEN Abort(Called(Called(run, "send", TRUE), "recv", FALSE), p.rng)
         ELSE Logged(Called(Called(run, "send", TRUE), "recv", TRUE), mutated, p, net.response)
    ELSE Logged(Called(run, "send", TRUE), mutated, p, <<>>)

\* the middle of an iteration, m being the message generated: it is mutated
\* if rng.random() < mutation_rate
MutateOrNot(fs, run, m, mutated, net) ==
    IF ~m.ok
    THEN Abort(run, m.rng)
    ELSE IF mutated
    THEN SendAndLog(run, TRUE, Mutate(fs, m, Advance(m.rng), run.config.mutations_per_frame), net)
    ELSE SendAndLog(run, FALSE, Done(m.data, Advance(m.rng)), net)

\* what rng.random() < mutation_rate gives after m was generated
MutationDrawn(run, m) == RandomBelow(Draw(m.rng), run.config.mutation_rate)

\* the first half of an iteration, m being what generate_valid_message
\* returned or raised
AfterGenerate(fs, run, m, net) == MutateOrNot(fs, run, m, MutationDrawn(run, m), net)

\* one iteration of run's loop
Iterate(fs, run, net) == AfterGenerate(fs, run, GenerateValidMessage(fs, run.rng), net)

\* run after its loop: the finally block, and run returns
Finish(run) == [CloseLog(CloseTransport(run)) EXCEPT !.status = "closed"]

---------------------------------------------------------------------------
(* SpecRun: two FuzzRunners built with the same schema and the same
   FuzzConfig, run side by side against transports that answer as they
   like *)

\* largest config.iterations
MaxIterations == 2

\* the schemas run on: one whose generation draws nothing, one whose first
\* field is drawn
RunRawMessages ==
    { <<[name |-> "len", type |-> "u8", length_of |-> "payload"],
        [name |-> "payload", type |-> "bytes", default |-> VBytes(<<7>>)]>>,
      <<[name |-> "v", type |-> "u8", min_value |-> VInt(I(250))],
        [name |-> "kind", type |-> "enum", choices |-> <<VInt(I(1)), VInt(I(2))>>, default |-> VInt(I(2))]>> }

\* the seeds of the streams of n draws
RECURSIVE SeedCount(_)
SeedCount(n) == IF n = 0 THEN 1 ELSE 6 * SeedCount(n - 1)

Seeds == 0..(SeedCount(SeedDraws) - 1)

Configs ==
    [ iterations : 0..MaxIterations,
      mutation_rate : {0, 3, 10},
      mutations_per_frame : {1, 2},
      recv_timeout : {0, 1},
      seed : {NoInt} \cup Seeds,
      dry_run : BOOLEAN,
      log_file : {FALSE} ]

\* what the operating system's entropy seeds an unseeded rng to
Entropies == {<<0, 4>>, <<1, 2>>}

\* what transport.recv returns: nothing (also after socket.timeout) or bytes
Responses == {<<>>, <<79, 75>>}

\* whether create_transport connects: to a faulty peer it may raise
Connects(peer) == IF peer = "faulty" THEN BOOLEAN ELSE {TRUE}

\* what the transport does with the send and the recv of one iteration: with
\* a faulty peer either call may raise (BrokenPipeError, ConnectionResetError)
NetOutcomes(peer) ==
    {[send_ok |-> TRUE, recv_ok |-> TRUE, response |-> b] : b \in Responses}
        \cup (IF peer = "faulty"
              THEN { [send_ok |-> FALSE, recv_ok |-> TRUE, response |-> <<>>],
                     [send_ok |-> TRUE, recv_ok |-> FALSE, response |-> <<>>] }
              ELSE {})

InitRun ==
    /\ pc = "run"
    /\ raw \in RunRawMessages
    /\ parsed = ParseMessage(raw)
    /\ parsed.ok
    /\ fields = parsed.fields
    /\ msg = NoMsg
    /\ buf = <<>>
    /\ opsLeft = 0
    /\ applied = <<>>
    /\ out = NoOut
    /\ width = 0
    /\ operations = 0
    /\ \E config \in Configs, e1 \in Entropies, e2 \in Entropies :
         runs = <<NewRunner(config, e1, "reliable"), NewRunner(config, e2, "reliable")>>

\* run r is called and gets to its loop
RunStart(r) ==
    /\ pc = "run"
    /\ runs[r].status = "new"
    /\ \E connects \in Connects(runs[r].peer) :
         runs' = [runs EXCEPT ![r] = Start(runs[r], connects)]
    /\ UNCHANGED <<pc, raw, parsed, fields, msg, buf, opsLeft, applied, out, width, operations>>

\* run r goes through one iteration of its loop
RunIteration(r) ==
    /\ pc = "run"
    /\ runs[r].status = "running"
    /\ runs[r].idx < runs[r].config.iterations
    /\ \E net \in NetOutcomes(runs[r].peer) :
         runs' = [runs EXCEPT ![r] = Iterate(fields, runs[r], net)]
    /\ UNCHANGED <<pc, raw, parsed, fields, msg, buf, opsLeft, applied, out, width, operations>>

\* run r leaves its loop: the finally block closes the transport
RunClose(r) ==
    /\ pc = "run"
    /\ runs[r].status = "running"
    /\ runs[r].idx >= runs[r].config.iterations
    /\ runs' = [runs EXCEPT ![r] = Finish(runs[r])]
    /\ UNCHANGED <<pc, raw, parsed, fields, msg, buf, opsLeft, applied, out, width, operations>>

NextRun ==
    \/ \E r \in DOMAIN runs : RunStart(r)
    \/ \E r \in DOMAIN runs : RunIteration(r)
    \/ \E r \in DOMAIN runs : RunClose(r)

SpecRun == InitRun /\ [][NextRun]_vars

---------------------------------------------------------------------------
(* SpecNet: one FuzzRunner run against a transport whose peer may be faulty,
   on schemas that generate and mutate and on schemas that raise *)

\* the schemas of SpecRun, a schema whose generation raises (unsupported
\* type) and one whose mutation may raise (invalid_enum on a negative length)
NetRawMessages ==
    RunRawMessages
        \cup { <<[name |-> "f", type |-> "float"]>>,
               <<[name |-> "e", type |-> "enum", choices |-> <<VStr(<<120>>)>>, length |-> -1]>> }

\* the configurations of SpecRun, without and with a log file
NetConfigs == {[c EXCEPT !.log_file = b] : c \in Configs, b \in BOOLEAN}

\* entropy streams: the third has the second iteration mutate with
\* invalid_enum after a first iteration that does not mutate at rate 0.3
NetEntropies == Entropies \cup {<<0, 9, 0, 0, 5>>}

InitNet ==
    /\ pc = "run"
    /\ raw \in NetRawMessages
    /\ parsed = ParseMessage(raw)
    /\ parsed.ok
    /\ fields = parsed.fields
    /\ msg = NoMsg
    /\ buf = <<>>
    /\ opsLeft = 0
    /\ applied = <<>>
    /\ out = NoOut
    /\ width = 0
    /\ operations = 0
    /\ \E config \in NetConfigs, e \in NetEntropies, peer \in {"reliable", "faulty"} :
         runs = <<NewRunner(config, e, peer)>>

SpecNet == InitNet /\ [][NextRun]_vars

---------------------------------------------------------------------------
(* Claims about FuzzRunner (SpecRun) *)

---------------------------------------------------------------------------
(* Claims about the transport calls of FuzzRunner.run (SpecNet) *)

\* the sends and recvs of a run, in order
SendsAndRecvs(run) == SelectSeq(run.calls, LAMBDA c : c.op # "close")

\* no transport call of the run has raised
NoCallFailed(run) == \A k \in 1..Len(run.calls) : run.calls[k].ok

\* n iterations' worth of calls: send 1, (recv 1,) send 2, (recv 2,) ...
RECURSIVE ExpectedCalls(_, _)
ExpectedCalls(n, recv) ==
    IF n = 0
    THEN <<>>
    ELSE ExpectedCalls(n - 1, recv)
             \o <<Call("send", n, TRUE)>>
             \o (IF recv THEN <<Call("recv", n, TRUE)>> ELSE <<>>)

\* C18: a non-dry run of N iterations in which no transport call fails has,
\* when it is over, made exactly N sends, one per iteration in the order
\* 1..N, each followed by exactly one recv before the next send if and only
\* if recv_timeout > 0
C18_SendsInOrder ==
    \A r \in DOMAIN runs :
        (runs[r].status = "closed" /\ runs[r].transport /\ NoCallFailed(runs[r]))
            => SendsAndRecvs(runs[r])
                   = ExpectedCalls(runs[r].config.iterations, runs[r].config.recv_timeout > 0)

\* the positions of the close calls of a run
Closes(run) == {k \in 1..Len(run.calls) : run.calls[k].op = "close"}

FailedIterations(run) == {run.calls[k].idx : k \in {j \in 1..Len(run.calls) : ~run.calls[j].ok}}

\* C20: a send or recv error raised in iteration i is reported for that
\* iteration and does not end the run: when the run is over, iteration i has
\* its line in the log and the iterations i+1..N have sent
C20_TransportErrorDoesNotEndRun ==
    \A r \in DOMAIN runs :
        runs[r].status = "closed"
            => \A i \in FailedIterations(runs[r]) :
                   /\ Len(runs[r].log) >= i
                   /\ \A j \in (i + 1)..runs[r].config.iterations :
                          \E k \in 1..Len(runs[r].calls) :
                              runs[r].calls[k].op = "send" /\ runs[r].calls[k].idx = j

\* C24: with dry_run = True, run never constructs a transport and makes no
\* send, recv or close, and it still goes through all N iterations, writing
\* one DRY-RUN log line for each
C24_DryRunSkipsTransport ==
    \A r \in DOMAIN runs :
        runs[r].config.dry_run
            => /\ ~runs[r].transport
               /\ runs[r].calls = <<>>
               /\ runs[r].status = "closed"
                      => (runs[r].idx = runs[r].config.iterations
                            /\ Len(runs[r].log) = runs[r].config.iterations)

\* C30: whenever run returns or raises, the log file the constructor opened
\* has been closed, also when create_transport fails before the loop starts
C30_LogFileClosed ==
    \A r \in DOMAIN runs : runs[r].status = "closed" => runs[r].log_fp # "open"

=============================================================================
